---- MODULE Spec2Model ----
(***************************************************************************)
(* Model of the Fliplet publishing widget: the PublishingService           *)
(* orchestrator (src/unnamed/part_002), the widget instance                *)
(* (src/js/build.js) and the IOSAPIKeyStep module (src/unnamed/part_004).  *)
(*                                                                         *)
(* JavaScript values are modelled as follows.  null / undefined objects    *)
(* are the record Nothing; objects are records or functions from field     *)
(* names to values, so that a missing field is a name outside DOMAIN;      *)
(* strings that the code inspects character by character (the version)     *)
(* are sequences of one-character strings; null ids are 0 (falsy).         *)
(***************************************************************************)
EXTENDS Integers, Sequences, FiniteSets, TLC

VARIABLES
    currentSubmission,  \* PublishingService.currentSubmission
    organizationId,     \* PublishingService.organizationId (0 = null)
    lastCall,           \* observation of the last service call: what was sent, how it ended
    remoteLatest,       \* the remote: latest submission of each platform
    created,            \* the remote: number of submissions created so far
    state,              \* build.js: the widget's state object
    apiKeySelect,       \* build.js: the #api-key-select dropdown (options, value)
    message,            \* build.js: what #error-container shows
    ctp,                \* build.js: continueToPlatform in flight
    cfk,                \* build.js: continueFromAPIKey in flight
    probe,              \* build.js: loadPlatformStatuses in flight
    display,            \* build.js: status indicator, text and progress of each platform card
    probed,             \* observation of loadPlatformStatuses: how each platform's fetch ended
    lastCreate,         \* observation of the last create request: the latest submission it met
    lastContinue,       \* observation of continueToPlatform: whether an initializeApp call
                        \* has succeeded
    poller,             \* workflow-diagrams.md: the build poller in flight
    form,               \* interface.js: the configuration form and what it saved
    keyStep             \* IOSAPIKeyStep: the component's variables, its page and what is
                        \* in flight

serviceVars == <<currentSubmission, organizationId, lastCall>>
widgetVars ==
    <<remoteLatest, created, state, apiKeySelect, message, ctp, cfk, probe, display, probed,
      lastCreate, lastContinue>>
otherVars == <<poller, form, keyStep>>
vars == <<serviceVars, widgetVars, otherVars>>

-----------------------------------------------------------------------------
(* Bounds of the model *)

\* submission ids the remote hands out: 1..MaxId
MaxId == 2
\* longest version string fed to submitStoreConfig in SpecStoreConfig
MaxVerLen == 7
\* submissions the remote lets the widget create in SpecWidget
MaxCreates == 2
\* polls of one poller
MaxPolls == 4
\* saves requested in the configuration interface
MaxSaves == 2
\* auto-hide timers pending at once in IOSAPIKeyStep
MaxTimers == 2

-----------------------------------------------------------------------------
(* Constants of PublishingService (constructor) *)

Nothing == [none |-> TRUE]

SUBMISSION_STATUS ==
    [STARTED |-> "started", COMPLETED |-> "completed", FAILED |-> "failed",
     CANCELLED |-> "cancelled", BUILD_TRIGGERED |-> "BUILD_TRIGGERED"]

DATA_STATUS ==
    [INITIALIZED |-> "INITIALIZED",
     STORE_CONFIG_SUBMITTED |-> "STORE_CONFIG_SUBMITTED",
     PUSH_NOTIFICATION_CONFIGURED |-> "PUSH_NOTIFICATION_CONFIGURED",
     METADATA_SUBMITTED |-> "METADATA_SUBMITTED",
     BUILD_TRIGGERED |-> "BUILD_TRIGGERED"]

PLATFORMS == [IOS |-> "ios", ANDROID |-> "android"]

TERMINAL_STATUSES == {"completed", "failed", "cancelled"}

\* Object.values(obj)
ObjectValues(obj) == {obj[k] : k \in DOMAIN obj}

-----------------------------------------------------------------------------
(* The remote API, as far as the service observes it *)

\* outer statuses the remote returns
RemoteStatuses == {"started", "completed", "failed", "cancelled"}

\* data objects the remote returns: absent, without status, or with a step marker
RemoteData ==
    {Nothing} \cup {[status |-> s] : s \in ObjectValues(DATA_STATUS) \cup {"undefined"}}

Ids == 1..MaxId

\* the submissions GET submissions/latest?platform=p can resolve with
LatestResponses(p) ==
    {[id |-> i, platform |-> p, status |-> st, data |-> d] :
        i \in Ids, st \in RemoteStatuses, d \in RemoteData}

\* the submission POST submissions/initialize resolves with (response.submission)
CreatedSubmission(i, p) ==
    [id |-> i, platform |-> p, status |-> "started",
     data |-> [status |-> "INITIALIZED"]]

-----------------------------------------------------------------------------
(* Utility methods *)

\* validatePlatform reduced to its truthiness test
ValidatePlatformTruthy(platform) ==
    /\ platform # "null"
    /\ platform # ""

\* validatePlatform: TRUE when it returns, FALSE when it throws
ValidatePlatform(platform) ==
    /\ platform # "null"
    /\ platform # ""
    /\ platform \in ObjectValues(PLATFORMS)

IsDigit(c) == c \in {"0", "1", "2", "3", "4", "5", "6", "7", "8", "9"}

\* the automaton of /^\d+\.\d+(\.\d+)?$/ : state after reading character c in state q
\* 0 start, 1 in first number, 2 after first dot, 3 in second number,
\* 4 after second dot, 5 in third number, 6 dead
VersionStep(q, c) ==
    CASE q = 0 -> IF IsDigit(c) THEN 1 ELSE 6
      [] q = 1 -> IF IsDigit(c) THEN 1 ELSE IF c = "." THEN 2 ELSE 6
      [] q = 2 -> IF IsDigit(c) THEN 3 ELSE 6
      [] q = 3 -> IF IsDigit(c) THEN 3 ELSE IF c = "." THEN 4 ELSE 6
      [] q = 4 -> IF IsDigit(c) THEN 5 ELSE 6
      [] q = 5 -> IF IsDigit(c) THEN 5 ELSE 6
      [] OTHER -> 6

RECURSIVE VersionRun(_, _)
VersionRun(q, s) ==
    IF s = <<>> THEN q ELSE VersionRun(VersionStep(q, Head(s)), Tail(s))

\* validateVersion with the pattern left open at the end, /^\d+\.\d+(\.\d+)?/
ValidateVersionUnanchored(version) ==
    \E n \in 1..Len(version) : VersionRun(0, SubSeq(version, 1, n)) \in {3, 5}

\* validateVersion: TRUE when it returns, FALSE when it throws
ValidateVersion(version) == VersionRun(0, version) \in {3, 5}

\* needsNewSubmission without its test of the outer status alone
NeedsNewSubmissionWhenBuilt(submission) ==
    \/ submission = Nothing
    \/ /\ submission.data # Nothing
       /\ submission.data.status = DATA_STATUS.BUILD_TRIGGERED
       /\ submission.status \in TERMINAL_STATUSES

\* needsNewSubmission
NeedsNewSubmission(submission) ==
    \/ submission = Nothing
    \/ submission.status \in TERMINAL_STATUSES
    \/ /\ submission.data # Nothing
       /\ submission.data.status = DATA_STATUS.BUILD_TRIGGERED
       /\ submission.status \in TERMINAL_STATUSES

\* determineCurrentStep answering the ios step for every platform
DetermineCurrentStepIOS(submission, platform) ==
    IF submission = Nothing \/ submission.status # "started" THEN "initialize"
    ELSE LET dataStatus == IF submission.data = Nothing THEN "undefined"
                           ELSE submission.data.status
         IN CASE dataStatus = "INITIALIZED" -> "api-key"
              [] dataStatus = "STORE_CONFIG_SUBMITTED" -> "push-config"
              [] dataStatus = "PUSH_NOTIFICATION_CONFIGURED" -> "app-store-listing"
              [] dataStatus = "METADATA_SUBMITTED" -> "trigger-build"
              [] dataStatus = "BUILD_TRIGGERED" -> "monitor-build"
              [] OTHER -> "initialize"

\* determineCurrentStep without its test that the submission is started
DetermineCurrentStepByData(submission, platform) ==
    IF submission = Nothing \/ submission.status \in {"completed", "failed", "cancelled"}
    THEN "initialize"
    ELSE LET dataStatus == IF submission.data = Nothing THEN "undefined"
                           ELSE submission.data.status
         IN CASE dataStatus = "INITIALIZED" ->
                     IF platform = "ios" THEN "api-key" ELSE "bundle-keystore"
              [] dataStatus = "STORE_CONFIG_SUBMITTED" -> "push-config"
              [] dataStatus = "PUSH_NOTIFICATION_CONFIGURED" -> "app-store-listing"
              [] dataStatus = "METADATA_SUBMITTED" -> "trigger-build"
              [] dataStatus = "BUILD_TRIGGERED" -> "monitor-build"
              [] OTHER -> "initialize"

\* determineCurrentStep taking a started submission without data.status to be at
\* INITIALIZED
DetermineCurrentStepAssumingData(submission, platform) ==
    IF submission = Nothing \/ submission.status # "started" THEN "initialize"
    ELSE LET dataStatus == IF submission.data = Nothing THEN "undefined"
                           ELSE submission.data.status
         IN CASE dataStatus = "STORE_CONFIG_SUBMITTED" -> "push-config"
              [] dataStatus = "PUSH_NOTIFICATION_CONFIGURED" -> "app-store-listing"
              [] dataStatus = "METADATA_SUBMITTED" -> "trigger-build"
              [] dataStatus = "BUILD_TRIGGERED" -> "monitor-build"
              [] OTHER -> IF platform = "ios" THEN "api-key" ELSE "bundle-keystore"

\* determineCurrentStep
DetermineCurrentStep(submission, platform) ==
    IF submission = Nothing \/ NeedsNewSubmission(submission) THEN "initialize"
    ELSE IF submission.status # SUBMISSION_STATUS.STARTED THEN "initialize"
    ELSE LET dataStatus == IF submission.data = Nothing THEN "undefined"
                           ELSE submission.data.status
         IN CASE dataStatus = DATA_STATUS.INITIALIZED ->
                     IF platform = PLATFORMS.IOS THEN "api-key" ELSE "bundle-keystore"
              [] dataStatus = DATA_STATUS.STORE_CONFIG_SUBMITTED -> "push-config"
              [] dataStatus = DATA_STATUS.PUSH_NOTIFICATION_CONFIGURED -> "app-store-listing"
              [] dataStatus = DATA_STATUS.METADATA_SUBMITTED -> "trigger-build"
              [] dataStatus = DATA_STATUS.BUILD_TRIGGERED -> "monitor-build"
              [] OTHER -> "initialize"

\* canProceedToStep looking at data.status only
CanProceedToStepAnyStatus(submission, platform) ==
    IF submission = Nothing THEN TRUE
    ELSE IF submission.data = Nothing THEN TRUE
    ELSE submission.data.status # "BUILD_TRIGGERED"

\* canProceedToStep
CanProceedToStep(submission, platform) ==
    IF submission = Nothing THEN TRUE
    ELSE IF submission.status # SUBMISSION_STATUS.STARTED THEN TRUE
    ELSE LET dataStatus == IF submission.data = Nothing THEN "undefined"
                           ELSE submission.data.status
         IN IF /\ dataStatus = DATA_STATUS.BUILD_TRIGGERED
               /\ submission.status = SUBMISSION_STATUS.STARTED
            THEN FALSE
            ELSE TRUE

-----------------------------------------------------------------------------
(* Observation of one service call *)

\* obj[k], or dflt when the object has no field k
Field(obj, k, dflt) == IF k \in DOMAIN obj THEN obj[k] ELSE dflt

\* a request handed to this.ajax
Request(method, endpoint, id, payload) ==
    [method |-> method, endpoint |-> endpoint, id |-> id, payload |-> payload]

\* what a call did: its arguments, the cache it started from, the request it sent
\* (or Nothing), how the remote answered ("none", "resolved", "rejected"), the
\* error it threw ("none" when it returned) and the value it returned
Call(op, args, pre, request, remote, error, returned) ==
    [op |-> op, args |-> args, pre |-> pre, request |-> request, remote |-> remote,
     error |-> error, returned |-> returned]

Outcome(cache, org, call) == [cache |-> cache, org |-> org, call |-> call]

\* the message of the error validatePlatform throws, as the pieces of its template
\* string; a null platform is interpolated as "null"
InvalidPlatformMessage(platform) ==
    <<"Invalid platform: ", platform, ". Must be 'ios' or 'android'.">>

\* a call that ended in validatePlatform's throw: nothing sent, the error's
\* message kept in place of a returned value
InvalidPlatformCall(op, args, cache, platform) ==
    Call(op, args, cache, Nothing, "none", "InvalidPlatform",
         [message |-> InvalidPlatformMessage(platform)])

-----------------------------------------------------------------------------
(* The resolver methods called on the service: no request, no assignment to *)
(* a field; the value is returned in the field "value"                      *)

needsNewSubmission(cache, org, submission) ==
    Outcome(cache, org,
        Call("needsNewSubmission", [submission |-> submission], cache, Nothing, "none",
             "none", [value |-> NeedsNewSubmission(submission)]))

\* determineCurrentStep that keeps the submission it was given as the current one
determineCurrentStepCaching(cache, org, submission, platform) ==
    Outcome(submission, org,
        Call("determineCurrentStep", [submission |-> submission, platform |-> platform],
             cache, Nothing, "none", "none",
             [value |-> DetermineCurrentStep(submission, platform)]))

determineCurrentStep(cache, org, submission, platform) ==
    Outcome(cache, org,
        Call("determineCurrentStep", [submission |-> submission, platform |-> platform],
             cache, Nothing, "none", "none",
             [value |-> DetermineCurrentStep(submission, platform)]))

canProceedToStep(cache, org, submission, platform) ==
    Outcome(cache, org,
        Call("canProceedToStep", [submission |-> submission, platform |-> platform],
             cache, Nothing, "none", "none",
             [value |-> CanProceedToStep(submission, platform)]))

-----------------------------------------------------------------------------
(* Core workflow methods.  Each operator is the whole method, from call to  *)
(* settlement: cache and org are the fields before the call, and the result *)
(* carries the fields after it.                                             *)

\* initializeApp; app is the body of GET v1/apps/:id, or Nothing when it rejects
initializeApp(cache, org, app, publishOk) ==
    IF app = Nothing
    THEN Outcome(cache, org,
            Call("initializeApp", Nothing, cache, Request("GET", "app", 0, Nothing),
                 "rejected", "Failed", Nothing))
    ELSE IF app.productionAppId = 0
    THEN IF publishOk
         THEN Outcome(cache, app.organizationId,
                Call("initializeApp", Nothing, cache, Request("POST", "publish", 0, Nothing),
                     "resolved", "none", [success |-> TRUE]))
         ELSE Outcome(cache, app.organizationId,
                Call("initializeApp", Nothing, cache, Request("POST", "publish", 0, Nothing),
                     "rejected", "Failed", Nothing))
    ELSE Outcome(cache, app.organizationId,
            Call("initializeApp", Nothing, cache, Request("GET", "app", 0, Nothing),
                 "resolved", "none", [success |-> TRUE]))

\* getSubmissionState; response is the latest submission, or Nothing when the
\* request rejects
getSubmissionState(cache, org, platform, response) ==
    LET args == [platform |-> platform] IN
    IF ~ValidatePlatform(platform)
    THEN Outcome(cache, org,
            InvalidPlatformCall("getSubmissionState", args, cache, platform))
    ELSE IF response # Nothing
    THEN Outcome(response, org,
            Call("getSubmissionState", args, cache,
                 Request("GET", "latest", 0, [platform |-> platform]),
                 "resolved", "none",
                 [submission |-> response,
                  needsNewSubmission |-> NeedsNewSubmission(response),
                  currentStep |-> DetermineCurrentStep(response, platform),
                  canProceed |-> CanProceedToStep(response, platform)]))
    ELSE Outcome(cache, org,
            Call("getSubmissionState", args, cache,
                 Request("GET", "latest", 0, [platform |-> platform]),
                 "rejected", "none",
                 [submission |-> Nothing,
                  needsNewSubmission |-> TRUE,
                  currentStep |-> "initialize",
                  canProceed |-> TRUE]))

\* createSubmission's payload with teamId copied for every platform
CreatePayloadWithTeamId(platform, teamId) ==
    [platform |-> platform, type |-> "appStore", teamId |-> teamId]

\* the payload createSubmission builds
CreatePayload(platform, teamId) ==
    IF platform = PLATFORMS.IOS
    THEN [platform |-> platform, type |-> "appStore", teamId |-> teamId]
    ELSE [platform |-> platform, type |-> "appStore"]

\* createSubmission that returns the created submission without keeping it
createSubmissionUncached(cache, org, platform, teamId, remoteOk, newId) ==
    LET args == [platform |-> platform, teamId |-> teamId] IN
    IF ~ValidatePlatform(platform)
    THEN Outcome(cache, org, InvalidPlatformCall("createSubmission", args, cache, platform))
    ELSE IF platform = "ios" /\ teamId = ""
    THEN Outcome(cache, org,
            Call("createSubmission", args, cache, Nothing, "none", "Validation", Nothing))
    ELSE LET req == Request("POST", "initialize", 0, CreatePayload(platform, teamId))
         IN IF remoteOk
            THEN Outcome(cache, org,
                    Call("createSubmission", args, cache, req, "resolved", "none",
                         [success |-> TRUE, submission |-> CreatedSubmission(newId, platform)]))
            ELSE Outcome(cache, org,
                    Call("createSubmission", args, cache, req, "rejected", "Failed", Nothing))

\* createSubmission; teamId "" is null / missing; newId is the id the remote assigns
createSubmission(cache, org, platform, teamId, remoteOk, newId) ==
    LET args == [platform |-> platform, teamId |-> teamId] IN
    IF ~ValidatePlatform(platform)
    THEN Outcome(cache, org,
            InvalidPlatformCall("createSubmission", args, cache, platform))
    ELSE IF platform = PLATFORMS.IOS /\ teamId = ""
    THEN Outcome(cache, org,
            Call("createSubmission", args, cache, Nothing, "none", "Validation", Nothing))
    ELSE LET req == Request("POST", "initialize", 0, CreatePayload(platform, teamId))
         IN IF remoteOk
            THEN Outcome(CreatedSubmission(newId, platform), org,
                    Call("createSubmission", args, cache, req, "resolved", "none",
                         [success |-> TRUE, submission |-> CreatedSubmission(newId, platform)]))
            ELSE Outcome(cache, org,
                    Call("createSubmission", args, cache, req, "rejected", "Failed", Nothing))

-----------------------------------------------------------------------------
(* Common workflow methods *)

\* "if (this.currentSubmission) this.currentSubmission.data.status = X", run inside
\* the try block after the request resolved: the assignment throws a TypeError
\* when the cached submission has no data object, and the catch block rethrows it
SetCachedDataStatus(cache, op, args, req, newStatus, org) ==
    IF cache = Nothing
    THEN Outcome(cache, org, Call(op, args, cache, req, "resolved", "none", [success |-> TRUE]))
    ELSE IF cache.data = Nothing
    THEN Outcome(cache, org, Call(op, args, cache, req, "resolved", "Failed", Nothing))
    ELSE Outcome([cache EXCEPT !.data = [cache.data EXCEPT !.status = newStatus]], org,
            Call(op, args, cache, req, "resolved", "none", [success |-> TRUE]))

\* submitStoreConfig
submitStoreConfig(cache, org, submissionId, storeData, platform, remoteOk) ==
    LET args == [submissionId |-> submissionId, storeData |-> storeData,
                 platform |-> platform] IN
    IF ~ValidatePlatform(platform)
    THEN Outcome(cache, org,
            InvalidPlatformCall("submitStoreConfig", args, cache, platform))
    ELSE IF Field(storeData, "bundleId", "") = ""
    THEN Outcome(cache, org,
            Call("submitStoreConfig", args, cache, Nothing, "none", "Validation", Nothing))
    ELSE IF Field(storeData, "version", <<>>) # <<>>
            /\ ~ValidateVersion(storeData.version)
    THEN Outcome(cache, org,
            Call("submitStoreConfig", args, cache, Nothing, "none", "Validation", Nothing))
    ELSE IF platform = PLATFORMS.ANDROID
            /\ Field(Field(storeData, "data", Nothing), "fl-store-versionCode", "") = ""
    THEN Outcome(cache, org,
            Call("submitStoreConfig", args, cache, Nothing, "none", "Validation", Nothing))
    ELSE LET req == Request("PUT", "store", submissionId, storeData)
         IN IF remoteOk
            THEN SetCachedDataStatus(cache, "submitStoreConfig", args, req,
                                     DATA_STATUS.STORE_CONFIG_SUBMITTED, org)
            ELSE Outcome(cache, org,
                    Call("submitStoreConfig", args, cache, req, "rejected", "Failed", Nothing))

\* submitPushConfig
submitPushConfig(cache, org, submissionId, configType, remoteOk) ==
    LET args == [submissionId |-> submissionId, configType |-> configType] IN
    LET req == Request("PUT", "metadata", submissionId, [type |-> configType])
    IN IF remoteOk
       THEN SetCachedDataStatus(cache, "submitPushConfig", args, req,
                                DATA_STATUS.PUSH_NOTIFICATION_CONFIGURED, org)
       ELSE Outcome(cache, org,
               Call("submitPushConfig", args, cache, req, "rejected", "Failed", Nothing))

\* the splash-screen flag added only where the caller gave none
MetadataPayloadKeepingFlag(metadataPayload, hasNewSplashScreen) ==
    IF hasNewSplashScreen
    THEN [k \in DOMAIN metadataPayload \cup {"splashScreen"} |->
            IF k = "splashScreen"
            THEN LET old == Field(metadataPayload, "splashScreen", Nothing)
                     base == IF old = Nothing THEN <<>> ELSE old
                 IN [f \in DOMAIN base \cup {"isEncrypted"} |->
                        IF f \in DOMAIN base THEN base[f] ELSE TRUE]
            ELSE metadataPayload[k]]
    ELSE metadataPayload

\* the payload submitMetadata sends
MetadataPayload(metadataPayload, hasNewSplashScreen) ==
    IF hasNewSplashScreen
    THEN [k \in DOMAIN metadataPayload \cup {"splashScreen"} |->
            IF k = "splashScreen"
            THEN LET old == Field(metadataPayload, "splashScreen", Nothing)
                     base == IF old = Nothing THEN <<>> ELSE old
                 IN [f \in DOMAIN base \cup {"isEncrypted"} |->
                        IF f = "isEncrypted" THEN TRUE ELSE base[f]]
            ELSE metadataPayload[k]]
    ELSE metadataPayload

\* submitMetadata
submitMetadata(cache, org, submissionId, metadataPayload, hasNewSplashScreen, remoteOk) ==
    LET args == [submissionId |-> submissionId, metadataPayload |-> metadataPayload,
                 hasNewSplashScreen |-> hasNewSplashScreen] IN
    LET req == Request("PUT", "metadata", submissionId,
                       MetadataPayload(metadataPayload, hasNewSplashScreen))
    IN IF remoteOk
       THEN SetCachedDataStatus(cache, "submitMetadata", args, req,
                                DATA_STATUS.METADATA_SUBMITTED, org)
       ELSE Outcome(cache, org,
               Call("submitMetadata", args, cache, req, "rejected", "Failed", Nothing))

\* this.currentSubmission?.data?.status
CachedDataStatus(cache) ==
    IF cache = Nothing THEN "undefined"
    ELSE IF cache.data = Nothing THEN "undefined"
    ELSE cache.data.status

\* triggerBuild with the guard "metadata submitted or later" in place of the equality
triggerBuildFromMetadataOn(cache, org, submissionId, remoteOk) ==
    LET args == [submissionId |-> submissionId] IN
    IF CachedDataStatus(cache) \notin
           {DATA_STATUS.METADATA_SUBMITTED, DATA_STATUS.BUILD_TRIGGERED}
    THEN Outcome(cache, org,
            Call("triggerBuild", args, cache, Nothing, "none", "Sequencing", Nothing))
    ELSE LET req == Request("POST", "build", submissionId, Nothing)
         IN IF remoteOk
            THEN Outcome([cache EXCEPT !.data = [cache.data EXCEPT
                                           !.status = DATA_STATUS.BUILD_TRIGGERED],
                                       !.status = SUBMISSION_STATUS.BUILD_TRIGGERED],
                         org,
                         Call("triggerBuild", args, cache, req, "resolved", "none",
                              [success |-> TRUE]))
            ELSE Outcome(cache, org,
                    Call("triggerBuild", args, cache, req, "rejected", "Failed", Nothing))

\* triggerBuild
triggerBuild(cache, org, submissionId, remoteOk) ==
    LET args == [submissionId |-> submissionId] IN
    IF CachedDataStatus(cache) # DATA_STATUS.METADATA_SUBMITTED
    THEN Outcome(cache, org,
            Call("triggerBuild", args, cache, Nothing, "none", "Sequencing", Nothing))
    ELSE LET req == Request("POST", "build", submissionId, Nothing)
         IN IF remoteOk
            THEN Outcome([cache EXCEPT !.data = [cache.data EXCEPT
                                           !.status = DATA_STATUS.BUILD_TRIGGERED],
                                       !.status = SUBMISSION_STATUS.BUILD_TRIGGERED],
                         org,
                         Call("triggerBuild", args, cache, req, "resolved", "none",
                              [success |-> TRUE]))
            ELSE Outcome(cache, org,
                    Call("triggerBuild", args, cache, req, "rejected", "Failed", Nothing))

\* cancelBuild with the cache marked cancelled before the request settles
cancelBuildEager(cache, org, submissionId, remoteOk) ==
    LET args == [submissionId |-> submissionId] IN
    LET req == Request("POST", "cancel", submissionId, Nothing)
        marked == IF cache = Nothing THEN cache
                  ELSE [cache EXCEPT !.status = SUBMISSION_STATUS.CANCELLED]
    IN IF remoteOk
       THEN Outcome(marked, org,
               Call("cancelBuild", args, cache, req, "resolved", "none", [success |-> TRUE]))
       ELSE Outcome(marked, org,
               Call("cancelBuild", args, cache, req, "rejected", "Failed", Nothing))

\* cancelBuild
cancelBuild(cache, org, submissionId, remoteOk) ==
    LET args == [submissionId |-> submissionId] IN
    LET req == Request("POST", "cancel", submissionId, Nothing)
    IN IF remoteOk
       THEN IF cache = Nothing
            THEN Outcome(cache, org,
                    Call("cancelBuild", args, cache, req, "resolved", "none", [success |-> TRUE]))
            ELSE Outcome([cache EXCEPT !.status = SUBMISSION_STATUS.CANCELLED], org,
                    Call("cancelBuild", args, cache, req, "resolved", "none", [success |-> TRUE]))
       ELSE Outcome(cache, org,
               Call("cancelBuild", args, cache, req, "rejected", "Failed", Nothing))

\* a call that ended in the throw of the organizationId guard: nothing sent
OrganizationNotSetCall(op, args, cache) ==
    Call(op, args, cache, Nothing, "none", "OrganizationNotSet", Nothing)

\* getAPIKeys; answer is the remote's: ok FALSE when the request rejects, else the
\* keys of response.data
getAPIKeys(cache, org, answer) ==
    IF org = 0
    THEN Outcome(cache, org, OrganizationNotSetCall("getAPIKeys", Nothing, cache))
    ELSE LET req == Request("GET", "credentials/api-keys", org, Nothing)
         IN IF answer.ok
            THEN Outcome(cache, org,
                    Call("getAPIKeys", Nothing, cache, req, "resolved", "none",
                         [success |-> TRUE, apiKeys |-> answer.keys]))
            ELSE Outcome(cache, org,
                    Call("getAPIKeys", Nothing, cache, req, "rejected", "Failed", Nothing))

\* the common shape of the organization-scoped methods: the organizationId guard,
\* then the method's own argument check, then the request
GuardedRequest(op, args, cache, org, valid, req, remoteOk) ==
    IF org = 0 THEN Outcome(cache, org, OrganizationNotSetCall(op, args, cache))
    ELSE IF ~valid
    THEN Outcome(cache, org, Call(op, args, cache, Nothing, "none", "Validation", Nothing))
    ELSE IF remoteOk
    THEN Outcome(cache, org,
            Call(op, args, cache, req, "resolved", "none", [success |-> TRUE]))
    ELSE Outcome(cache, org, Call(op, args, cache, req, "rejected", "Failed", Nothing))

\* createAPIKey; keyData is a record of some of name, keyId, issuerId, privateKey
createAPIKey(cache, org, keyData, remoteOk) ==
    GuardedRequest("createAPIKey", [keyData |-> keyData], cache, org,
                   \A k \in {"name", "keyId", "issuerId", "privateKey"} :
                        Field(keyData, k, "") # "",
                   Request("POST", "credentials/api-key", org, keyData), remoteOk)

validateAPIKey(cache, org, keyData, remoteOk) ==
    GuardedRequest("validateAPIKey", [keyData |-> keyData], cache, org, TRUE,
                   Request("POST", "credentials/api-key/validate", org, keyData), remoteOk)

\* checkCertificate; teamId "" is null / empty
checkCertificate(cache, org, teamId, remoteOk) ==
    GuardedRequest("checkCertificate", [teamId |-> teamId], cache, org, teamId # "",
                   Request("POST", "credentials/ios/certificate/check", org,
                           [teamId |-> teamId]), remoteOk)

generateCertificate(cache, org, teamId, remoteOk) ==
    GuardedRequest("generateCertificate", [teamId |-> teamId], cache, org, TRUE,
                   Request("POST", "credentials/ios/certificate/generate", org,
                           [teamId |-> teamId]), remoteOk)

uploadCertificate(cache, org, teamId, certificateData, remoteOk) ==
    GuardedRequest("uploadCertificate",
                   [teamId |-> teamId, certificateData |-> certificateData], cache, org, TRUE,
                   Request("PUT", "credentials/ios/certificate/upload", org,
                           [teamId |-> teamId, certificateData |-> certificateData]),
                   remoteOk)

getBundleIDs(cache, org, teamId, remoteOk) ==
    GuardedRequest("getBundleIDs", [teamId |-> teamId], cache, org, TRUE,
                   Request("GET", "apple/bundle-ids", org, [teamId |-> teamId]), remoteOk)

getBundleIDDetails(cache, org, bundleId, teamId, remoteOk) ==
    GuardedRequest("getBundleIDDetails", [bundleId |-> bundleId, teamId |-> teamId],
                   cache, org, TRUE,
                   Request("GET", "apple/bundle-ids/:bundleId", org, [teamId |-> teamId]),
                   remoteOk)

\* getTeamPushConfig: a rejected request is answered with "not configured"
getTeamPushConfig(cache, org, teamId, remoteOk) ==
    LET args == [teamId |-> teamId]
        req == Request("GET", "credentials/push/:teamId", org, Nothing)
    IN IF org = 0
       THEN Outcome(cache, org, OrganizationNotSetCall("getTeamPushConfig", args, cache))
       ELSE IF remoteOk
       THEN Outcome(cache, org,
               Call("getTeamPushConfig", args, cache, req, "resolved", "none",
                    [success |-> TRUE, configured |-> TRUE]))
       ELSE Outcome(cache, org,
               Call("getTeamPushConfig", args, cache, req, "rejected", "none",
                    [success |-> TRUE, configured |-> FALSE]))

\* getSubmissions; status "" is null; the remote answers with a body that has no
\* data field, so that the method returns the empty list
getSubmissions(cache, org, platform, status, type, remoteOk) ==
    LET args == [platform |-> platform, status |-> status, type |-> type]
        params == IF status # ""
                  THEN [platform |-> platform, type |-> type, status |-> status]
                  ELSE [platform |-> platform, type |-> type]
        req == Request("GET", "submissions", 0, params)
    IN IF ~ValidatePlatform(platform)
       THEN Outcome(cache, org, InvalidPlatformCall("getSubmissions", args, cache, platform))
       ELSE IF remoteOk
       THEN Outcome(cache, org,
               Call("getSubmissions", args, cache, req, "resolved", "none",
                    [success |-> TRUE, submissions |-> <<>>]))
       ELSE Outcome(cache, org,
               Call("getSubmissions", args, cache, req, "rejected", "Failed", Nothing))

-----------------------------------------------------------------------------
(* Inputs of the service calls *)

\* platform arguments: the two supported ones, an unsupported one, null and ""
PlatformInputs == {"ios", "android", "windows", "null", ""}

\* teamId arguments: "" is null / empty
TeamIdInputs == {"", "TEAM1"}

\* bodies of GET v1/apps/:id (productionAppId 0: not published yet), Nothing: rejected
AppResponses ==
    {Nothing} \cup {[organizationId |-> 7, productionAppId |-> pid] : pid \in {0, 9}}

\* storeData.data objects: absent, without version code, with an empty one, with one
StoreDataObjects ==
    {Nothing, [other |-> "x"], [k \in {"fl-store-versionCode"} |-> ""],
     [k \in {"fl-store-versionCode"} |-> "42"]}

\* storeData arguments over the version strings vs: bundleId missing or given,
\* data object missing or one of the above
StoreInputsOver(vs) ==
    {[bundleId |-> b, version |-> v, data |-> d] :
        b \in {"", "com.fliplet.app"}, v \in vs, d \in StoreDataObjects \ {Nothing}}
    \cup {[bundleId |-> b, version |-> v] : b \in {"", "com.fliplet.app"}, v \in vs}

\* storeData arguments of the orchestration runs: complete for ios, complete for
\* android, without bundle id, with a version of four numbers, without version code
SomeStoreInputs ==
    {[bundleId |-> "com.fliplet.app", version |-> <<"1", ".", "2">>],
     [bundleId |-> "com.fliplet.app", version |-> <<"1", ".", "2", ".", "3">>,
      data |-> [k \in {"fl-store-versionCode"} |-> "42"]],
     [version |-> <<"1", ".", "2">>],
     [bundleId |-> "com.fliplet.app", version |-> <<"1", ".", "2", ".", "3", ".", "4">>],
     [bundleId |-> "com.fliplet.app", data |-> [k \in {"fl-store-versionCode"} |-> ""]]}

\* metadata payloads: without splash screen, with one, with one marked unencrypted
MetadataInputs ==
    {[name |-> "App"],
     [name |-> "App", splashScreen |-> [url |-> "u"]],
     [name |-> "App", splashScreen |-> [url |-> "u", isEncrypted |-> FALSE]]}

-----------------------------------------------------------------------------
(* The progress projector of the platform cards (build.js).  A card is what  *)
(* updatePlatformStatus and updatePlatformProgress last wrote: the class of  *)
(* the status indicator, the status text (as the pieces of its template     *)
(* string), and the current and completed steps the step items are marked   *)
(* from.                                                                     *)

Card(statusClass, statusText, currentStep, completedSteps) ==
    [statusClass |-> statusClass, statusText |-> statusText,
     currentStep |-> currentStep, completedSteps |-> completedSteps]

\* a card as the page's markup has it, before any update
MarkupCard == Card("markup", <<>>, "markup", <<>>)

\* getStepDisplayName
GetStepDisplayName(step) ==
    CASE step = "initialize" -> "Starting"
      [] step = "api-key" -> "API Key"
      [] step = "bundle-cert" -> "Bundle & Cert"
      [] step = "bundle-keystore" -> "Bundle & Key"
      [] step = "push-config" -> "Push Config"
      [] step = "app-store-listing" -> "Store Listing"
      [] step = "build" -> "Building"
      [] OTHER -> step

\* getCompletedSteps with the android lists for every platform
GetCompletedStepsAndroid(submission, platform) ==
    IF submission = Nothing THEN <<>>
    ELSE IF submission.data = Nothing THEN <<>>
    ELSE LET dataStatus == submission.data.status
         IN CASE dataStatus = "STORE_CONFIG_SUBMITTED" -> <<"bundle-keystore">>
              [] dataStatus = "PUSH_NOTIFICATION_CONFIGURED" ->
                    <<"bundle-keystore", "push-config">>
              [] dataStatus = "METADATA_SUBMITTED" ->
                    <<"bundle-keystore", "push-config", "app-store-listing">>
              [] dataStatus = "BUILD_TRIGGERED" ->
                    <<"bundle-keystore", "push-config", "app-store-listing", "build">>
              [] OTHER -> <<>>

\* getCompletedSteps (build.js)
GetCompletedSteps(submission, platform) ==
    IF submission = Nothing THEN <<>>
    ELSE IF submission.data = Nothing THEN <<>>
    ELSE LET dataStatus == submission.data.status
         IN CASE dataStatus = "STORE_CONFIG_SUBMITTED" ->
                    IF platform = "ios" THEN <<"api-key", "bundle-cert">>
                    ELSE <<"bundle-keystore">>
              [] dataStatus = "PUSH_NOTIFICATION_CONFIGURED" ->
                    IF platform = "ios" THEN <<"api-key", "bundle-cert", "push-config">>
                    ELSE <<"bundle-keystore", "push-config">>
              [] dataStatus = "METADATA_SUBMITTED" ->
                    IF platform = "ios"
                    THEN <<"api-key", "bundle-cert", "push-config", "app-store-listing">>
                    ELSE <<"bundle-keystore", "push-config", "app-store-listing">>
              [] dataStatus = "BUILD_TRIGGERED" ->
                    IF platform = "ios"
                    THEN <<"api-key", "bundle-cert", "push-config", "app-store-listing",
                           "build">>
                    ELSE <<"bundle-keystore", "push-config", "app-store-listing", "build">>
              [] OTHER -> <<>>

\* getCompletedSteps (DashboardStep, README)
DashboardGetCompletedSteps(submission, platform) ==
    IF submission = Nothing THEN <<>>
    ELSE IF submission.data = Nothing THEN <<>>
    ELSE LET dataStatus == submission.data.status
             statusMap ==
                [STORE_CONFIG_SUBMITTED |->
                    IF platform = "ios" THEN <<"api-key", "bundle-cert">>
                    ELSE <<"bundle-keystore">>,
                 PUSH_NOTIFICATION_CONFIGURED |->
                    IF platform = "ios" THEN <<"api-key", "bundle-cert", "push-config">>
                    ELSE <<"bundle-keystore", "push-config">>,
                 METADATA_SUBMITTED |->
                    IF platform = "ios"
                    THEN <<"api-key", "bundle-cert", "push-config", "app-store-listing">>
                    ELSE <<"bundle-keystore", "push-config", "app-store-listing">>,
                 BUILD_TRIGGERED |->
                    IF platform = "ios"
                    THEN <<"api-key", "bundle-cert", "push-config", "app-store-listing",
                           "build">>
                    ELSE <<"bundle-keystore", "push-config", "app-store-listing", "build">>]
         IN IF dataStatus \in DOMAIN statusMap THEN statusMap[dataStatus] ELSE <<>>

\* the card of a platform with nothing to show: 'Ready to start', no step done
NotStartedCard == Card("not-started", <<"Ready to start">>, "initialize", <<>>)

\* updatePlatformDisplay: the card it leaves for the result of getSubmissionState
UpdatePlatformDisplay(platform, submissionState) ==
    LET submission == submissionState.submission
        currentStep == submissionState.currentStep
    IN IF submission = Nothing \/ submissionState.needsNewSubmission
       THEN NotStartedCard
       ELSE LET completedSteps == GetCompletedSteps(submission, platform)
            IN IF submission.status = "completed"
               THEN Card("completed", <<"Published">>, currentStep, completedSteps)
               ELSE IF submission.status = "failed"
               THEN Card("failed", <<"Failed">>, currentStep, completedSteps)
               ELSE IF submission.status = "started"
               THEN Card("in-progress",
                         <<"In progress (", GetStepDisplayName(currentStep), ")">>,
                         currentStep, completedSteps)
               ELSE Card("not-started", <<"Ready to start">>, currentStep, completedSteps)

\* updatePlatformStatus(platform, 'checking', 'Checking status...') on a card
CheckingCard(card) ==
    [card EXCEPT !.statusClass = "checking", !.statusText = <<"Checking status...">>]

-----------------------------------------------------------------------------
(* The service driven by a caller that makes one call at a time *)

NoCall == Call("none", Nothing, Nothing, Nothing, "none", "none", Nothing)

\* a service just constructed
ServiceInit ==
    /\ currentSubmission = Nothing
    /\ organizationId = 0
    /\ lastCall = NoCall

\* the widget's state object as declared
WidgetState ==
    [currentScreen |-> "platform-selection", selectedPlatform |-> "null",
     submissionId |-> 0, organizationId |-> 0]

\* nothing continued yet
NoContinue == [initialized |-> FALSE]

\* no build poller started
NoPoller == [pc |-> "idle"]

\* the configuration interface not opened
NoForm == [open |-> FALSE]

\* IOSAPIKeyStep not constructed
NoStep == [mounted |-> FALSE]

\* no widget around the service
WidgetAbsent ==
    /\ remoteLatest = [p \in ObjectValues(PLATFORMS) |-> Nothing]
    /\ created = 0
    /\ state = WidgetState
    /\ apiKeySelect = [options |-> {}, value |-> ""]
    /\ message = "none"
    /\ ctp = [pc |-> "idle"]
    /\ cfk = [pc |-> "idle"]
    /\ probe = "done"
    /\ display = [p \in ObjectValues(PLATFORMS) |-> MarkupCard]
    /\ probed = [p \in ObjectValues(PLATFORMS) |-> "none"]
    /\ lastCreate = [sent |-> FALSE]
    /\ lastContinue = NoContinue
    /\ poller = NoPoller
    /\ form = NoForm
    /\ keyStep = NoStep

Init == ServiceInit /\ WidgetAbsent

\* the service's fields and the observation after a call
SettleService(o) ==
    /\ currentSubmission' = o.cache
    /\ organizationId' = o.org
    /\ lastCall' = o.call

Settle(o) == SettleService(o) /\ UNCHANGED <<widgetVars, otherVars>>

\* the remote's answers to choose from: both when the call sends a request, one
\* (it is never asked) when the call ends before sending
Answers(o) == IF o.call.request = Nothing THEN {TRUE} ELSE BOOLEAN

CallGetSubmissionState ==
    \E platform \in PlatformInputs :
        \E response \in {Nothing} \cup
                (IF ValidatePlatform(platform) THEN LatestResponses(platform) ELSE {}) :
            Settle(getSubmissionState(currentSubmission, organizationId, platform, response))

CallCreateSubmission ==
    \E platform \in PlatformInputs, teamId \in TeamIdInputs :
        \E remoteOk \in Answers(createSubmission(currentSubmission, organizationId,
                                                 platform, teamId, TRUE, 1)) :
            \E newId \in (IF remoteOk THEN Ids ELSE {1}) :
                Settle(createSubmission(currentSubmission, organizationId, platform,
                                        teamId, remoteOk, newId))

CallSubmitStoreConfig ==
    \E submissionId \in Ids, storeData \in SomeStoreInputs, platform \in PlatformInputs :
        \E remoteOk \in Answers(submitStoreConfig(currentSubmission, organizationId,
                                    submissionId, storeData, platform, TRUE)) :
            Settle(submitStoreConfig(currentSubmission, organizationId, submissionId,
                                     storeData, platform, remoteOk))

CallSubmitPushConfig ==
    \E submissionId \in Ids, remoteOk \in BOOLEAN :
        Settle(submitPushConfig(currentSubmission, organizationId, submissionId,
                                "PUSH_CONFIG", remoteOk))

CallSubmitMetadata ==
    \E submissionId \in Ids, metadataPayload \in MetadataInputs,
       hasNewSplashScreen \in BOOLEAN, remoteOk \in BOOLEAN :
        Settle(submitMetadata(currentSubmission, organizationId, submissionId,
                              metadataPayload, hasNewSplashScreen, remoteOk))

CallTriggerBuild ==
    \E submissionId \in Ids :
        \E remoteOk \in Answers(triggerBuild(currentSubmission, organizationId,
                                             submissionId, TRUE)) :
            Settle(triggerBuild(currentSubmission, organizationId, submissionId, remoteOk))

CallCancelBuild ==
    \E submissionId \in Ids, remoteOk \in BOOLEAN :
        Settle(cancelBuild(currentSubmission, organizationId, submissionId, remoteOk))

CallGetSubmissions ==
    \E platform \in PlatformInputs, status \in {"", "started"} :
        \E remoteOk \in Answers(getSubmissions(currentSubmission, organizationId,
                                               platform, status, "appStore", TRUE)) :
            Settle(getSubmissions(currentSubmission, organizationId, platform, status,
                                  "appStore", remoteOk))

Next ==
    \/ CallGetSubmissionState
    \/ CallGetSubmissions
    \/ CallCreateSubmission
    \/ CallSubmitStoreConfig
    \/ CallSubmitPushConfig
    \/ CallSubmitMetadata
    \/ CallTriggerBuild
    \/ CallCancelBuild

Spec == Init /\ [][Next]_vars

-----------------------------------------------------------------------------
(* Properties of the orchestrator, stated on the last call *)

\* the call sent a request
Sent(call) == call.request # Nothing

\* the call returned { success: true }
Succeeded(call) == call.error = "none" /\ call.remote = "resolved"

\* the position of a data.status in the ordered sequence, 0 when unrecognized
Rank(dataStatus) ==
    CASE dataStatus = "INITIALIZED" -> 1
      [] dataStatus = "STORE_CONFIG_SUBMITTED" -> 2
      [] dataStatus = "PUSH_NOTIFICATION_CONFIGURED" -> 3
      [] dataStatus = "METADATA_SUBMITTED" -> 4
      [] dataStatus = "BUILD_TRIGGERED" -> 5
      [] OTHER -> 0

StepTransitions == {"submitStoreConfig", "submitPushConfig", "submitMetadata"}

\* the data.status each step transition requires
RequiredBefore(op) ==
    CASE op = "submitStoreConfig" -> "INITIALIZED"
      [] op = "submitPushConfig" -> "STORE_CONFIG_SUBMITTED"
      [] op = "submitMetadata" -> "PUSH_NOTIFICATION_CONFIGURED"

\* C1: called on a cached submission, submitStoreConfig, submitPushConfig and
\* submitMetadata send their PUT only when the cached data.status is the value just
\* before the step's own; otherwise they throw a sequencing error and send nothing.
C1_StepOrderEnforced ==
    (/\ lastCall.op \in StepTransitions
     /\ lastCall.pre # Nothing
     /\ lastCall.pre.data # Nothing) =>
        /\ Sent(lastCall) => CachedDataStatus(lastCall.pre) = RequiredBefore(lastCall.op)
        /\ (/\ CachedDataStatus(lastCall.pre) # RequiredBefore(lastCall.op)
            /\ lastCall.error \notin {"InvalidPlatform", "Validation"})
           => lastCall.error = "Sequencing"

\* C2: a successful transition on a cached submission strictly increases the
\* cached data.status in the order INITIALIZED < ... < BUILD_TRIGGERED.
C2_StatusStrictlyIncreases ==
    (/\ lastCall.op \in StepTransitions \cup {"triggerBuild"}
     /\ Succeeded(lastCall)
     /\ lastCall.pre # Nothing
     /\ lastCall.pre.data # Nothing)
    => /\ currentSubmission.id = lastCall.pre.id
       /\ Rank(CachedDataStatus(currentSubmission)) > Rank(CachedDataStatus(lastCall.pre))

MutatingOps ==
    {"createSubmission", "submitStoreConfig", "submitPushConfig", "submitMetadata",
     "triggerBuild", "cancelBuild"}

\* C3: when the remote call of a mutating operation rejects, the operation throws
\* and currentSubmission is what it was before the call.
C3_FailureLeavesCacheUnchanged ==
    (lastCall.op \in MutatingOps /\ lastCall.remote = "rejected")
    => /\ lastCall.error = "Failed"
       /\ currentSubmission = lastCall.pre

\* C3 witness: a rejected cancel request on a cached started submission
C3_Witness ==
    /\ lastCall.op = "cancelBuild"
    /\ lastCall.remote = "rejected"
    /\ lastCall.pre # Nothing
    /\ lastCall.pre.status = "started"

\* C5: triggerBuild sends the build POST exactly when the cached data.status is
\* METADATA_SUBMITTED; in every other cached state it throws the sequencing error,
\* sends nothing and leaves the cache as it was; after a successful triggerBuild
\* a further triggerBuild is rejected.
C5_TriggerBuildGated ==
    lastCall.op = "triggerBuild" =>
        /\ Sent(lastCall) <=> CachedDataStatus(lastCall.pre) = "METADATA_SUBMITTED"
        /\ ~Sent(lastCall) =>
              /\ lastCall.error = "Sequencing"
              /\ currentSubmission = lastCall.pre
        /\ Succeeded(lastCall) =>
              \A id \in Ids, remoteOk \in BOOLEAN :
                  LET again == triggerBuild(currentSubmission, organizationId, id, remoteOk)
                  IN /\ again.call.error = "Sequencing"
                     /\ ~Sent(again.call)
                     /\ again.cache = currentSubmission

\* C5 witness: a triggerBuild rejected because the build was already triggered by
\* an earlier successful triggerBuild
C5_Witness ==
    /\ lastCall.op = "triggerBuild"
    /\ lastCall.error = "Sequencing"
    /\ lastCall.pre # Nothing
    /\ lastCall.pre.status = "BUILD_TRIGGERED"
    /\ CachedDataStatus(lastCall.pre) = "BUILD_TRIGGERED"

\* C6: after triggerBuild succeeds on a started submission the cache is
\* started + BUILD_TRIGGERED, for which the resolver gives monitor-build,
\* canProceed = false, needsNewSubmission = false.
C6_AfterTriggerBuildMonitor ==
    (/\ lastCall.op = "triggerBuild"
     /\ Succeeded(lastCall)
     /\ lastCall.pre.status = "started")
    => /\ currentSubmission.status = "started"
       /\ CachedDataStatus(currentSubmission) = "BUILD_TRIGGERED"
       /\ DetermineCurrentStep(currentSubmission, currentSubmission.platform) = "monitor-build"
       /\ ~CanProceedToStep(currentSubmission, currentSubmission.platform)
       /\ ~NeedsNewSubmission(currentSubmission)

\* C7: the outer status of the cached submission is always one of started,
\* completed, failed, cancelled.
C7_OuterStatusInLifecycle ==
    currentSubmission # Nothing =>
        currentSubmission.status \in {"started", "completed", "failed", "cancelled"}

\* C8: cancelBuild on a cached submission that is completed, failed or cancelled
\* is rejected, sends no cancel request and leaves the cached status as it was.
C8_CancelOnlyWhileStarted ==
    (/\ lastCall.op = "cancelBuild"
     /\ lastCall.pre # Nothing
     /\ lastCall.pre.status \in {"completed", "failed", "cancelled"})
    => /\ ~Sent(lastCall)
       /\ lastCall.error # "none"
       /\ currentSubmission = lastCall.pre

\* C10: createSubmission for ios with an empty or missing teamId throws before any
\* request and leaves the cache unchanged; for android it sends the request
\* whatever teamId is passed, and the payload has no teamId field.
C10_CreateSubmissionTeamId ==
    lastCall.op = "createSubmission" =>
        /\ (lastCall.args.platform = "ios" /\ lastCall.args.teamId = "")
           => /\ ~Sent(lastCall)
              /\ lastCall.error = "Validation"
              /\ currentSubmission = lastCall.pre
        /\ lastCall.args.platform = "android"
           => /\ Sent(lastCall)
              /\ lastCall.request.endpoint = "initialize"
              /\ "teamId" \notin DOMAIN lastCall.request.payload
              /\ lastCall.request.payload.platform = "android"

\* C10 witness: an android submission created with a teamId passed
C10_Witness ==
    /\ lastCall.op = "createSubmission"
    /\ lastCall.args.platform = "android"
    /\ lastCall.args.teamId = "TEAM1"
    /\ Succeeded(lastCall)
    /\ currentSubmission = CreatedSubmission(currentSubmission.id, "android")

\* the operations that take a platform
PlatformOps == {"getSubmissionState", "createSubmission", "submitStoreConfig", "getSubmissions"}

\* C11: an operation that takes a platform, called with anything but 'ios' or
\* 'android' (null and "" included), throws an error whose message names the
\* value, sends no request and leaves currentSubmission as it was; 'ios' and
\* 'android' never end in that error.
C11_InvalidPlatformRejected ==
    lastCall.op \in PlatformOps =>
        /\ lastCall.args.platform \notin {"ios", "android"}
           => /\ lastCall.error = "InvalidPlatform"
              /\ ~Sent(lastCall)
              /\ currentSubmission = lastCall.pre
              /\ \E i \in DOMAIN lastCall.returned.message :
                    lastCall.returned.message[i] = lastCall.args.platform
        /\ lastCall.args.platform \in {"ios", "android"}
           => lastCall.error # "InvalidPlatform"

\* C11 witness: getSubmissions with an unsupported platform, on a cached submission
C11_Witness ==
    /\ lastCall.op = "getSubmissions"
    /\ lastCall.args.platform = "windows"
    /\ lastCall.error = "InvalidPlatform"
    /\ lastCall.pre # Nothing

-----------------------------------------------------------------------------
(* submitStoreConfig on every short store payload: one fetch of the latest    *)
(* submission, then one submitStoreConfig call                                *)

\* characters of the version strings: a digit, the dot, a letter
VersionChars == {"1", ".", "a"}

\* the strings over VersionChars of length at most n
RECURSIVE Strings(_)
Strings(n) ==
    IF n = 0 THEN {<<>>}
    ELSE LET shorter == Strings(n - 1)
         IN shorter \cup {Append(x, c) : x \in shorter, c \in VersionChars}

\* the latest submissions of the store-config step: started, at INITIALIZED or
\* without a data object
StoreStepResponses ==
    {[id |-> 1, platform |-> "ios", status |-> "started", data |-> d] :
        d \in {Nothing, [status |-> "INITIALIZED"]}}

StoreFetch ==
    /\ lastCall.op = "none"
    /\ \E response \in {Nothing} \cup StoreStepResponses :
           Settle(getSubmissionState(currentSubmission, organizationId, "ios", response))

StoreSubmit ==
    /\ lastCall.op # "submitStoreConfig"
    /\ \E storeData \in StoreInputsOver(Strings(MaxVerLen)),
          platform \in ObjectValues(PLATFORMS) :
           \E remoteOk \in Answers(submitStoreConfig(currentSubmission, organizationId,
                                       1, storeData, platform, TRUE)) :
               Settle(submitStoreConfig(currentSubmission, organizationId, 1,
                                        storeData, platform, remoteOk))

NextStoreConfig == StoreFetch \/ StoreSubmit

SpecStoreConfig == Init /\ [][NextStoreConfig]_vars

\* n.n or n.n.n: only digits and dots, one or two dots, none of them first, last
\* or next to another dot
WellFormedVersion(v) ==
    LET dots == {i \in 1..Len(v) : v[i] = "."}
    IN /\ Len(v) > 0
       /\ \A i \in 1..Len(v) : v[i] = "." \/ IsDigit(v[i])
       /\ Cardinality(dots) \in {1, 2}
       /\ 1 \notin dots
       /\ Len(v) \notin dots
       /\ \A i \in dots : i + 1 \notin dots

\* C9: submitStoreConfig with bundleId missing, or a version that is present and is
\* not n.n or n.n.n, or (android) fl-store-versionCode missing or empty throws a
\* validation error, sends no request and leaves the cached submission unchanged.
C9_StoreConfigValidatedFirst ==
    lastCall.op = "submitStoreConfig" =>
        LET storeData == lastCall.args.storeData
            version == Field(storeData, "version", <<>>)
            data == Field(storeData, "data", Nothing)
            invalid ==
                \/ Field(storeData, "bundleId", "") = ""
                \/ version # <<>> /\ ~WellFormedVersion(version)
                \/ /\ lastCall.args.platform = "android"
                   /\ Field(data, "fl-store-versionCode", "") = ""
        IN invalid =>
              /\ ~Sent(lastCall)
              /\ lastCall.error = "Validation"
              /\ currentSubmission = lastCall.pre

\* C9 witness: version 1.1.1.1 with a bundle id, on a cached submission
C9_Witness ==
    /\ lastCall.op = "submitStoreConfig"
    /\ lastCall.args.storeData.bundleId # ""
    /\ lastCall.args.storeData.version = <<"1", ".", "1", ".", "1", ".", "1">>
    /\ lastCall.args.platform = "ios"
    /\ lastCall.pre # Nothing
    /\ lastCall.error = "Validation"

-----------------------------------------------------------------------------
(* The resolver methods on every submission, called on a service whose      *)
(* cache is set by a fetch of the latest submission                         *)

\* outer statuses of the submissions handed to the resolver: the values of
\* SUBMISSION_STATUS (BUILD_TRIGGERED is the one triggerBuild writes) and an
\* unknown one
ResolverStatuses == ObjectValues(SUBMISSION_STATUS) \cup {"pending"}

\* submissions handed to the resolver: none, or any status with any data object
ResolverSubmissions ==
    {Nothing} \cup
    {[id |-> 1, platform |-> p, status |-> st, data |-> d] :
        p \in ObjectValues(PLATFORMS), st \in ResolverStatuses, d \in RemoteData}

\* latest submissions the fetch caches
ResolverLatest(p) ==
    {[id |-> 2, platform |-> p, status |-> st, data |-> [status |-> d]] :
        st \in {"started", "completed"}, d \in {"INITIALIZED", "BUILD_TRIGGERED"}}

ResolverFetch ==
    \E platform \in ObjectValues(PLATFORMS) :
        \E response \in {Nothing} \cup ResolverLatest(platform) :
            Settle(getSubmissionState(currentSubmission, organizationId, platform, response))

CallNeedsNewSubmission ==
    \E submission \in ResolverSubmissions :
        Settle(needsNewSubmission(currentSubmission, organizationId, submission))

CallDetermineCurrentStep ==
    \E submission \in ResolverSubmissions, platform \in ObjectValues(PLATFORMS) :
        Settle(determineCurrentStep(currentSubmission, organizationId, submission, platform))

CallCanProceedToStep ==
    \E submission \in ResolverSubmissions, platform \in ObjectValues(PLATFORMS) :
        Settle(canProceedToStep(currentSubmission, organizationId, submission, platform))

NextResolver ==
    \/ ResolverFetch
    \/ CallNeedsNewSubmission
    \/ CallDetermineCurrentStep
    \/ CallCanProceedToStep

SpecResolver == Init /\ [][NextResolver]_vars

ResolverOps == {"needsNewSubmission", "determineCurrentStep", "canProceedToStep"}

\* data.status of a submission, "undefined" when it has no data object
DataStatusOf(submission) ==
    IF submission.data = Nothing THEN "undefined" ELSE submission.data.status

\* C12: needsNewSubmission is true exactly for an absent submission and for one
\* whose status is completed, failed or cancelled, whatever its data.status; when
\* it is true the resolver gives currentStep 'initialize' and canProceed true on
\* both platforms.
C12_NeedsNewSubmissionWhenAbsentOrTerminal ==
    lastCall.op = "needsNewSubmission" =>
        LET submission == lastCall.args.submission
            absentOrTerminal ==
                \/ submission = Nothing
                \/ submission.status \in {"completed", "failed", "cancelled"}
        IN /\ lastCall.returned.value <=> absentOrTerminal
           /\ lastCall.returned.value =>
                \A platform \in {"ios", "android"} :
                    /\ determineCurrentStep(currentSubmission, organizationId, submission,
                                            platform).call.returned.value = "initialize"
                    /\ canProceedToStep(currentSubmission, organizationId, submission,
                                        platform).call.returned.value

\* C12 witness: a cancelled submission at INITIALIZED needs a new submission
C12_Witness ==
    /\ lastCall.op = "needsNewSubmission"
    /\ lastCall.args.submission # Nothing
    /\ lastCall.args.submission.status = "cancelled"
    /\ DataStatusOf(lastCall.args.submission) = "INITIALIZED"
    /\ lastCall.returned.value

\* the step of the table for a data.status on a platform
StepOfTable(dataStatus, platform) ==
    CASE dataStatus = "INITIALIZED" /\ platform = "ios" -> "api-key"
      [] dataStatus = "INITIALIZED" /\ platform = "android" -> "bundle-keystore"
      [] dataStatus = "STORE_CONFIG_SUBMITTED" -> "push-config"
      [] dataStatus = "PUSH_NOTIFICATION_CONFIGURED" -> "app-store-listing"
      [] dataStatus = "METADATA_SUBMITTED" -> "trigger-build"
      [] dataStatus = "BUILD_TRIGGERED" -> "monitor-build"
      [] OTHER -> "initialize"

C14_CanProceedUnlessBuilding ==
    lastCall.op = "canProceedToStep" =>
        LET submission == lastCall.args.submission
            building ==
                /\ submission # Nothing
                /\ submission.status = "started"
                /\ DataStatusOf(submission) = "BUILD_TRIGGERED"
        IN lastCall.returned.value <=> ~building

\* C14 witness: a completed submission at BUILD_TRIGGERED can proceed
C14_Witness ==
    /\ lastCall.op = "canProceedToStep"
    /\ lastCall.args.submission # Nothing
    /\ lastCall.args.submission.status = "completed"
    /\ DataStatusOf(lastCall.args.submission) = "BUILD_TRIGGERED"
    /\ lastCall.returned.value

\* C15: for a submission whose status is neither started nor terminal the
\* resolver gives needsNewSubmission false, currentStep 'initialize' and
\* canProceed true, whatever its data.status.
C15_OtherStatusInitialize ==
    (/\ lastCall.op \in ResolverOps
     /\ lastCall.args.submission # Nothing
     /\ lastCall.args.submission.status \notin
            {"started", "completed", "failed", "cancelled"})
    => LET submission == lastCall.args.submission
       IN \A platform \in {"ios", "android"} :
            /\ ~needsNewSubmission(currentSubmission, organizationId,
                                   submission).call.returned.value
            /\ determineCurrentStep(currentSubmission, organizationId, submission,
                                    platform).call.returned.value = "initialize"
            /\ canProceedToStep(currentSubmission, organizationId, submission,
                                platform).call.returned.value

\* C15 witness: a submission with outer status BUILD_TRIGGERED at METADATA_SUBMITTED
\* resolves to 'initialize'
C15_Witness ==
    /\ lastCall.op = "determineCurrentStep"
    /\ lastCall.args.submission # Nothing
    /\ lastCall.args.submission.status = "BUILD_TRIGGERED"
    /\ DataStatusOf(lastCall.args.submission) = "METADATA_SUBMITTED"
    /\ lastCall.returned.value = "initialize"

\* caches against which a resolver result is compared
ResolverCaches ==
    {Nothing} \cup ResolverLatest("ios") \cup ResolverLatest("android")

\* the value a resolver method returns for the arguments args on the cache cache
ResolverValue(op, cache, args) ==
    CASE op = "needsNewSubmission" ->
            needsNewSubmission(cache, 0, args.submission).call.returned.value
      [] op = "determineCurrentStep" ->
            determineCurrentStep(cache, 0, args.submission, args.platform).call.returned.value
      [] op = "canProceedToStep" ->
            canProceedToStep(cache, 0, args.submission, args.platform).call.returned.value

-----------------------------------------------------------------------------
(* The widget instance (build.js) on a remote that keeps the latest          *)
(* submission of each platform.  A step is one run of JavaScript between two *)
(* awaits: a user event with the promise callbacks it starts, or the         *)
(* settlement of a request with the callbacks that follow it.  A service     *)
(* method is applied when its request settles, with the arguments it was     *)
(* called with.  The calls are not recorded in lastCall here.                *)

\* the service's fields after a call
SettleFields(o) ==
    /\ currentSubmission' = o.cache
    /\ organizationId' = o.org
    /\ UNCHANGED lastCall

\* the latest submissions a platform can start with: none, one in progress at the
\* first step or building, or a finished one
InitialLatest(p, i) ==
    {Nothing}
    \cup {[id |-> i, platform |-> p, status |-> "started", data |-> [status |-> d]] :
            d \in {"INITIALIZED", "BUILD_TRIGGERED"}}
    \cup {[id |-> i, platform |-> p, status |-> st, data |-> [status |-> "BUILD_TRIGGERED"]] :
            st \in TERMINAL_STATUSES}

\* the answers to GET submissions/latest?platform=p: the latest submission, or a
\* rejection (Nothing): not found when there is none, a failed request otherwise
FetchAnswers(p) ==
    {Nothing} \cup (IF remoteLatest[p] # Nothing THEN {remoteLatest[p]} ELSE {})

\* the answers to getAPIKeys: rejected, no keys, one key
KeyAnswers == {[ok |-> FALSE, keys |-> {}], [ok |-> TRUE, keys |-> {}],
               [ok |-> TRUE, keys |-> {"KEY1"}]}

\* the cards and the probe after init(): loadPlatformStatuses has marked the ios
\* card as checking and sent the ios request
ProbeStarted ==
    /\ probe = "ios"
    /\ display = [p \in ObjectValues(PLATFORMS) |->
                    IF p = "ios" THEN CheckingCard(MarkupCard) ELSE MarkupCard]
    /\ probed = [p \in ObjectValues(PLATFORMS) |-> "none"]

\* init(): the service is constructed and loadPlatformStatuses has sent the ios
\* request
InitWidget ==
    /\ ServiceInit
    /\ remoteLatest \in [ObjectValues(PLATFORMS) -> InitialLatest("ios", 1) \cup InitialLatest("android", 2)]
    /\ \A p \in ObjectValues(PLATFORMS) :
          remoteLatest[p] \in InitialLatest(p, IF p = "ios" THEN 1 ELSE 2)
    /\ created = 0
    /\ state = WidgetState
    /\ apiKeySelect = [options |-> {}, value |-> ""]
    /\ message = "none"
    /\ ctp = [pc |-> "idle"]
    /\ cfk = [pc |-> "idle"]
    /\ ProbeStarted
    /\ lastCreate = [sent |-> FALSE]
    /\ lastContinue = NoContinue
    /\ poller = NoPoller
    /\ form = NoForm
    /\ keyStep = NoStep

\* loadPlatformStatuses that gives up at the first fetch that rejects
ProbeSettlesAborting ==
    /\ probe \in ObjectValues(PLATFORMS)
    /\ \E response \in FetchAnswers(probe) :
          LET o == getSubmissionState(currentSubmission, organizationId, probe, response)
              next == IF probe = "ios" /\ response # Nothing THEN "android" ELSE "done"
              shown == [display EXCEPT ![probe] = UpdatePlatformDisplay(probe, o.call.returned)]
          IN /\ SettleFields(o)
             /\ probed' = [probed EXCEPT ![probe] = o.call.remote]
             /\ probe' = next
             /\ display' = IF next = "done" THEN shown
                           ELSE [shown EXCEPT ![next] = CheckingCard(shown[next])]
    /\ UNCHANGED <<remoteLatest, created, state, apiKeySelect, message, ctp, cfk, lastCreate>>
    /\ UNCHANGED <<lastContinue, otherVars>>

\* loadPlatformStatuses: the request of the platform being checked settles, its
\* card is updated from the result, and the loop goes on to the next platform,
\* marking its card as checking and sending its request
ProbeSettles ==
    /\ probe \in ObjectValues(PLATFORMS)
    /\ \E response \in FetchAnswers(probe) :
          LET o == getSubmissionState(currentSubmission, organizationId, probe, response)
              next == IF probe = "ios" THEN "android" ELSE "done"
              shown == [display EXCEPT ![probe] = UpdatePlatformDisplay(probe, o.call.returned)]
          IN /\ SettleFields(o)
             /\ probed' = [probed EXCEPT ![probe] = o.call.remote]
             /\ probe' = next
             /\ display' = IF next = "done" THEN shown
                           ELSE [shown EXCEPT ![next] = CheckingCard(shown[next])]
    /\ UNCHANGED <<remoteLatest, created, state, apiKeySelect, message, ctp, cfk, lastCreate>>
    /\ UNCHANGED <<lastContinue, otherVars>>

\* selectPlatform, on a click on a platform card
selectPlatform(platform) ==
    /\ state.currentScreen = "platform-selection"
    /\ state' = [state EXCEPT !.selectedPlatform = platform]
    /\ UNCHANGED <<serviceVars, remoteLatest, created, apiKeySelect, message, ctp, cfk,
                   probe, display, probed, lastCreate>>
    /\ UNCHANGED <<lastContinue, otherVars>>

\* the call getSubmissionState(state.selectedPlatform) of continueToPlatform
CtpGetState(platform) == [pc |-> "getState", platform |-> platform]

\* continueToPlatform, on a click on #continue-btn (disabled while loading)
continueToPlatform ==
    /\ state.currentScreen = "platform-selection"
    /\ state.selectedPlatform # "null"
    /\ ctp.pc = "idle"
    /\ IF organizationId = 0
       THEN /\ ctp' = [pc |-> "initializeApp"]
            /\ UNCHANGED state
       ELSE /\ ctp' = CtpGetState(state.selectedPlatform)
            /\ state' = [state EXCEPT !.organizationId = organizationId]
    /\ UNCHANGED <<serviceVars, remoteLatest, created, apiKeySelect, message, cfk, probe, display, probed,
                   lastCreate>>
    /\ UNCHANGED <<lastContinue, otherVars>>

\* continueToPlatform: initializeApp settles
CtpInitializeAppSettles ==
    /\ ctp.pc = "initializeApp"
    /\ \E app \in AppResponses :
         \E publishOk \in (IF app # Nothing /\ app.productionAppId = 0
                           THEN BOOLEAN ELSE {TRUE}) :
           LET o == initializeApp(currentSubmission, organizationId, app, publishOk)
           IN /\ SettleFields(o)
              /\ IF o.call.error = "none"
                 THEN /\ state' = [state EXCEPT !.organizationId = o.org]
                      /\ ctp' = CtpGetState(state.selectedPlatform)
                      /\ lastContinue' = [lastContinue EXCEPT !.initialized = TRUE]
                      /\ UNCHANGED message
                 ELSE /\ message' = "error"
                      /\ ctp' = [pc |-> "idle"]
                      /\ UNCHANGED <<state, lastContinue>>
    /\ UNCHANGED <<remoteLatest, created, apiKeySelect, cfk, probe, display, probed, lastCreate>>
    /\ UNCHANGED otherVars

\* continueToPlatform: getSubmissionState settles
CtpGetStateSettles ==
    /\ ctp.pc = "getState"
    /\ \E response \in FetchAnswers(ctp.platform) :
           LET o == getSubmissionState(currentSubmission, organizationId, ctp.platform,
                                       response)
               submission == o.call.returned.submission
           IN /\ SettleFields(o)
              /\ state' = [state EXCEPT !.submissionId =
                              IF submission # Nothing THEN submission.id ELSE 0]
              /\ UNCHANGED <<lastContinue, otherVars>>
    /\ IF state.selectedPlatform = "ios"
       THEN ctp' = [pc |-> "loadAPIKeys"] /\ UNCHANGED message
       ELSE ctp' = [pc |-> "idle"] /\ message' = "error"
    /\ UNCHANGED <<remoteLatest, created, apiKeySelect, cfk, probe, display, probed, lastCreate>>

\* continueToPlatform: the getAPIKeys request of loadAPIKeys settles
CtpLoadAPIKeysSettles ==
    /\ ctp.pc = "loadAPIKeys"
    /\ \E answer \in KeyAnswers :
           LET o == getAPIKeys(currentSubmission, organizationId, answer)
           IN /\ SettleFields(o)
              /\ IF o.call.error = "none"
                 THEN /\ apiKeySelect' = [options |-> o.call.returned.apiKeys, value |-> ""]
                      /\ UNCHANGED message
                 ELSE /\ message' = "error"
                      /\ UNCHANGED apiKeySelect
    /\ state' = [state EXCEPT !.currentScreen = "ios-api-key"]
    /\ UNCHANGED <<lastContinue, otherVars>>
    /\ ctp' = [pc |-> "idle"]
    /\ UNCHANGED <<remoteLatest, created, cfk, probe, display, probed, lastCreate>>

\* the user picks an option of #api-key-select
SelectAPIKey ==
    /\ state.currentScreen = "ios-api-key"
    /\ \E key \in apiKeySelect.options \cup {""} :
           /\ key # apiKeySelect.value
           /\ apiKeySelect' = [apiKeySelect EXCEPT !.value = key]
    /\ UNCHANGED <<serviceVars, remoteLatest, created, state, message, ctp, cfk, probe, display, probed,
                   lastCreate>>
    /\ UNCHANGED <<lastContinue, otherVars>>

\* a click on #back-btn
Back ==
    /\ state.currentScreen = "ios-api-key"
    /\ state' = [state EXCEPT !.currentScreen = "platform-selection"]
    /\ UNCHANGED <<serviceVars, remoteLatest, created, apiKeySelect, message, ctp, cfk,
                   probe, display, probed, lastCreate>>
    /\ UNCHANGED <<lastContinue, otherVars>>

\* continueFromAPIKey, on a click on #continue-api-key (disabled while loading)
continueFromAPIKey ==
    /\ state.currentScreen = "ios-api-key"
    /\ cfk.pc = "idle"
    /\ LET selectedKeyId == apiKeySelect.value
           probeCall == createSubmission(currentSubmission, organizationId,
                                         state.selectedPlatform, selectedKeyId, TRUE, 1).call
       IN IF selectedKeyId = ""
          THEN /\ message' = "error"
               /\ UNCHANGED <<cfk, lastCreate, lastCall>>
          ELSE IF state.submissionId # 0
          THEN /\ message' = "success"
               /\ UNCHANGED <<cfk, lastCreate, lastCall>>
          ELSE IF probeCall.request = Nothing
          THEN /\ message' = "error"
               /\ UNCHANGED <<cfk, lastCreate, lastCall>>
          ELSE /\ cfk' = [pc |-> "createSubmission", platform |-> state.selectedPlatform,
                          teamId |-> selectedKeyId]
               /\ lastCreate' = [sent |-> TRUE, platform |-> state.selectedPlatform,
                                 latest |-> remoteLatest[state.selectedPlatform]]
               /\ UNCHANGED <<message, lastCall>>
    /\ UNCHANGED <<currentSubmission, organizationId, remoteLatest, created, state,
                   apiKeySelect, ctp, probe, display, probed>>
    /\ UNCHANGED <<lastContinue, otherVars>>

\* continueFromAPIKey: createSubmission settles
CfkCreateSubmissionSettles ==
    /\ cfk.pc = "createSubmission"
    /\ \E remoteOk \in (IF created < MaxCreates THEN BOOLEAN ELSE {FALSE}) :
           LET o == createSubmission(currentSubmission, organizationId, cfk.platform,
                                     cfk.teamId, remoteOk, 3 + created)
           IN /\ SettleFields(o)
              /\ IF remoteOk
                 THEN /\ remoteLatest' = [remoteLatest EXCEPT ![cfk.platform] =
                                              o.call.returned.submission]
                      /\ created' = created + 1
                      /\ state' = [state EXCEPT !.submissionId =
                                      o.call.returned.submission.id]
                      /\ message' = "success"
                 ELSE /\ message' = "error"
                      /\ UNCHANGED <<remoteLatest, created, state>>
    /\ cfk' = [pc |-> "idle"]
    /\ UNCHANGED <<apiKeySelect, ctp, probe, display, probed, lastCreate>>
    /\ UNCHANGED <<lastContinue, otherVars>>

NextWidget ==
    \/ ProbeSettles
    \/ \E platform \in ObjectValues(PLATFORMS) : selectPlatform(platform)
    \/ continueToPlatform
    \/ CtpInitializeAppSettles
    \/ CtpGetStateSettles
    \/ CtpLoadAPIKeysSettles
    \/ SelectAPIKey
    \/ Back
    \/ continueFromAPIKey
    \/ CfkCreateSubmissionSettles

SpecWidget == InitWidget /\ [][NextWidget]_vars

\* C4: a create-submission request for a platform is sent only when the latest
\* remote submission of that platform is absent or completed, failed or cancelled.
C4_CreateOnlyWhenAbsentOrTerminal ==
    lastCreate.sent =>
        \/ lastCreate.latest = Nothing
        \/ lastCreate.latest.status \in {"completed", "failed", "cancelled"}

\* C21: organizationId is set only when an initializeApp call has succeeded: as
\* long as none has, organizationId is unset and continueToPlatform does not get
\* past initializeApp.
C21_OrganizationIdOnlyOnSuccess ==
    ~lastContinue.initialized =>
        /\ organizationId = 0
        /\ ctp.pc \notin {"getState", "loadAPIKeys"}

\* key data and team ids handed to the organization-scoped methods
KeyDataInputs ==
    {[name |-> "k", keyId |-> "K1", issuerId |-> "I1", privateKey |-> "pem"],
     [name |-> "k", keyId |-> "K1"]}

\* the calls of the organization-scoped methods on a service whose organizationId
\* is org, with the remote accepting
OrganizationCalls(cache, org) ==
    {getAPIKeys(cache, org, [ok |-> TRUE, keys |-> {"KEY1"}]).call}
    \cup {createAPIKey(cache, org, k, TRUE).call : k \in KeyDataInputs}
    \cup {validateAPIKey(cache, org, k, TRUE).call : k \in KeyDataInputs}
    \cup {checkCertificate(cache, org, t, TRUE).call : t \in TeamIdInputs}
    \cup {generateCertificate(cache, org, t, TRUE).call : t \in TeamIdInputs}
    \cup {uploadCertificate(cache, org, t, "p12", TRUE).call : t \in TeamIdInputs}
    \cup {getBundleIDs(cache, org, t, TRUE).call : t \in TeamIdInputs}
    \cup {getBundleIDDetails(cache, org, "com.fliplet.app", t, TRUE).call : t \in TeamIdInputs}
    \cup {getTeamPushConfig(cache, org, t, TRUE).call : t \in TeamIdInputs}

\* C22: with organizationId unset every organization-scoped method throws
\* 'Organization ID not set' and sends nothing; and the widget has a getAPIKeys
\* request in flight only after an initializeApp call has succeeded.
C22_OrganizationIdRequired ==
    /\ \A call \in OrganizationCalls(currentSubmission, 0) :
          /\ call.error = "OrganizationNotSet"
          /\ ~Sent(call)
    /\ (/\ ctp.pc = "loadAPIKeys"
        /\ Sent(getAPIKeys(currentSubmission, organizationId,
                           [ok |-> TRUE, keys |-> {}]).call))
       => lastContinue.initialized

\* the latest submission of platform p is active and the widget holds its id:
\* continueToPlatform has fetched it
HoldsActiveLatest(p) ==
    /\ state.selectedPlatform = p
    /\ remoteLatest[p] # Nothing
    /\ ~NeedsNewSubmission(remoteLatest[p])
    /\ state.submissionId = remoteLatest[p].id

\* C24: once continueToPlatform has ended for a platform whose active latest
\* submission it fetched, the widget is on a screen of that platform's workflow,
\* and it is on ios-api-key, the first screen of the ios workflow, only when the
\* current step of that submission is api-key.
C24_ResumesAtCurrentStep ==
    \A p \in {"ios", "android"} :
        (HoldsActiveLatest(p) /\ ctp.pc = "idle") =>
            /\ p = "android" => state.currentScreen # "platform-selection"
            /\ state.currentScreen = "ios-api-key" =>
                  DetermineCurrentStep(remoteLatest[p], p) = "api-key"

-----------------------------------------------------------------------------
(* The dashboard: loadPlatformStatuses on every pair of latest submissions   *)

\* latest submissions of a platform: none, or any status with any data object
DashboardLatest(p) ==
    {Nothing} \cup
    {[id |-> 1, platform |-> p, status |-> st, data |-> d] :
        st \in ResolverStatuses, d \in RemoteData}

InitDashboard ==
    /\ ServiceInit
    /\ remoteLatest \in [ObjectValues(PLATFORMS) ->
                            DashboardLatest("ios") \cup DashboardLatest("android")]
    /\ \A p \in ObjectValues(PLATFORMS) : remoteLatest[p] \in DashboardLatest(p)
    /\ created = 0
    /\ state = WidgetState
    /\ apiKeySelect = [options |-> {}, value |-> ""]
    /\ message = "none"
    /\ ctp = [pc |-> "idle"]
    /\ cfk = [pc |-> "idle"]
    /\ ProbeStarted
    /\ lastCreate = [sent |-> FALSE]
    /\ lastContinue = NoContinue
    /\ poller = NoPoller
    /\ form = NoForm
    /\ keyStep = NoStep

NextDashboard == ProbeSettles

SpecDashboard == InitDashboard /\ [][NextDashboard]_vars

\* a is a prefix of b
IsPrefix(a, b) == Len(a) <= Len(b) /\ SubSeq(b, 1, Len(a)) = a

\* the data statuses in their order
OrderedDataStatuses ==
    <<"INITIALIZED", "STORE_CONFIG_SUBMITTED", "PUSH_NOTIFICATION_CONFIGURED",
      "METADATA_SUBMITTED", "BUILD_TRIGGERED">>

\* a started submission of platform p at the i-th data status
SubmissionAt(i, p) ==
    [id |-> 1, platform |-> p, status |-> "started",
     data |-> [status |-> OrderedDataStatuses[i]]]

\* C17: for each platform the lists getCompletedSteps returns for INITIALIZED ..
\* BUILD_TRIGGERED are each a prefix of the next; for ios at METADATA_SUBMITTED the
\* list is api-key, bundle-cert, push-config, app-store-listing, without 'build';
\* the widget's function and DashboardStep's return the same list; the card of a
\* started submission is marked from that list.
C17_CompletedStepsPrefixTable ==
    /\ GetCompletedSteps(SubmissionAt(4, "ios"), "ios") =
          <<"api-key", "bundle-cert", "push-config", "app-store-listing">>
    /\ \A p \in {"ios", "android"} :
          /\ \A i \in 1..(Len(OrderedDataStatuses) - 1) :
                IsPrefix(GetCompletedSteps(SubmissionAt(i, p), p),
                         GetCompletedSteps(SubmissionAt(i + 1, p), p))
          /\ \A s \in {remoteLatest[p]} \cup
                      {SubmissionAt(i, p) : i \in DOMAIN OrderedDataStatuses} :
                GetCompletedSteps(s, p) = DashboardGetCompletedSteps(s, p)
          /\ (/\ probed[p] = "resolved"
              /\ remoteLatest[p].status = "started")
             => display[p].completedSteps = GetCompletedSteps(remoteLatest[p], p)

\* C17 witness: the ios card of a started submission at METADATA_SUBMITTED shows
\* four completed steps
C17_Witness ==
    /\ probed["ios"] = "resolved"
    /\ remoteLatest["ios"].status = "started"
    /\ remoteLatest["ios"].data # Nothing
    /\ remoteLatest["ios"].data.status = "METADATA_SUBMITTED"
    /\ display["ios"].completedSteps =
          <<"api-key", "bundle-cert", "push-config", "app-store-listing">>

\* C18: the card of a platform whose latest submission was fetched shows
\* 'Published' / completed for status completed, 'Failed' / failed for failed,
\* 'In progress (<step name>)' / in-progress for started; the card of a platform
\* without submission shows 'Ready to start' / not-started.
C18_DisplayedStatusFollowsStatus ==
    \A p \in {"ios", "android"} :
        /\ probed[p] = "resolved" =>
              LET status == remoteLatest[p].status
              IN /\ status = "completed" =>
                        /\ display[p].statusClass = "completed"
                        /\ display[p].statusText = <<"Published">>
                 /\ status = "failed" =>
                        /\ display[p].statusClass = "failed"
                        /\ display[p].statusText = <<"Failed">>
                 /\ status = "started" =>
                        /\ display[p].statusClass = "in-progress"
                        /\ display[p].statusText =
                              <<"In progress (",
                                GetStepDisplayName(
                                    DetermineCurrentStep(remoteLatest[p], p)), ")">>
        /\ (probed[p] = "rejected" /\ remoteLatest[p] = Nothing) =>
              /\ display[p].statusClass = "not-started"
              /\ display[p].statusText = <<"Ready to start">>

\* the submission has no data object or no data.status
PartialData(submission) ==
    \/ submission.data = Nothing
    \/ submission.data.status = "undefined"

\* C19: for a fetched submission without data object or without data.status, of
\* any outer status, getSubmissionState returns currentStep 'initialize',
\* getCompletedSteps returns the empty list, and the card is updated by
\* updatePlatformDisplay (a started one shows 'In progress (Starting)'), not by
\* the handler of an exception.
C19_PartialDataTolerated ==
    \A p \in {"ios", "android"} :
        (probed[p] = "resolved" /\ PartialData(remoteLatest[p])) =>
            LET result == getSubmissionState(Nothing, 0, p, remoteLatest[p]).call
            IN /\ result.error = "none"
               /\ result.returned.currentStep = "initialize"
               /\ GetCompletedSteps(remoteLatest[p], p) = <<>>
               /\ display[p] = UpdatePlatformDisplay(p, result.returned)
               /\ display[p].currentStep = "initialize"
               /\ display[p].completedSteps = <<>>
               /\ remoteLatest[p].status = "started" =>
                     /\ display[p].statusClass = "in-progress"
                     /\ display[p].statusText = <<"In progress (", "Starting", ")">>

\* C19 witness: the android card of a started submission without data object
C19_Witness ==
    /\ probed["android"] = "resolved"
    /\ remoteLatest["android"].status = "started"
    /\ remoteLatest["android"].data = Nothing
    /\ display["android"].statusClass = "in-progress"

\* C20: a platform whose fetch rejected shows 'Ready to start' / not-started with
\* no completed step, no error is shown, and when loadPlatformStatuses is done
\* both platforms were fetched and neither card is left as checking: the card of
\* the other platform shows what its own fetch returned.
C20_FailedProbeDegrades ==
    /\ message = "none"
    /\ \A p \in {"ios", "android"} :
          /\ probed[p] = "rejected" => display[p] = NotStartedCard
          /\ probe = "done" =>
                /\ probed[p] \in {"resolved", "rejected"}
                /\ display[p].statusClass # "checking"
                /\ probed[p] = "resolved" =>
                      display[p] = UpdatePlatformDisplay(p,
                          getSubmissionState(Nothing, 0, p, remoteLatest[p]).call.returned)

\* C20 witness: the ios fetch rejected although ios has a started submission, and
\* the android card shows its started submission
C20_Witness ==
    /\ probe = "done"
    /\ probed["ios"] = "rejected"
    /\ remoteLatest["ios"] # Nothing
    /\ remoteLatest["ios"].status = "started"
    /\ display["ios"] = NotStartedCard
    /\ probed["android"] = "resolved"
    /\ display["android"].statusClass = "in-progress"

\* C26: submitMetadata with hasNewSplashScreen sends a payload whose
\* splashScreen.isEncrypted is true, whether the caller gave no splashScreen, one
\* without the flag or one with the flag false, and leaves every other field as
\* given; without hasNewSplashScreen the payload sent is the payload given.
C26_SplashScreenEncrypted ==
    lastCall.op = "submitMetadata" =>
        LET given == lastCall.args.metadataPayload
            sent == lastCall.request.payload
        IN IF lastCall.args.hasNewSplashScreen
           THEN /\ "splashScreen" \in DOMAIN sent
                /\ "isEncrypted" \in DOMAIN sent.splashScreen
                /\ sent.splashScreen.isEncrypted = TRUE
                /\ DOMAIN sent = DOMAIN given \cup {"splashScreen"}
                /\ \A k \in DOMAIN given \ {"splashScreen"} : sent[k] = given[k]
                /\ "splashScreen" \in DOMAIN given =>
                      \A f \in DOMAIN given.splashScreen \ {"isEncrypted"} :
                          sent.splashScreen[f] = given.splashScreen[f]
           ELSE sent = given

\* C26 witness: a caller-supplied isEncrypted false was sent as true
C26_Witness ==
    /\ lastCall.op = "submitMetadata"
    /\ lastCall.args.hasNewSplashScreen
    /\ "splashScreen" \in DOMAIN lastCall.args.metadataPayload
    /\ "isEncrypted" \in DOMAIN lastCall.args.metadataPayload.splashScreen
    /\ ~lastCall.args.metadataPayload.splashScreen.isEncrypted
    /\ lastCall.request.payload.splashScreen.isEncrypted
    /\ lastCall.remote = "resolved"

\* the latest-submission request of loadPlatformStatuses for platform p has been
\* sent: it is in flight or has settled
StatusRequested(p) == probe = p \/ probed[p] # "none"

\* C28: the dashboard checks both platforms in parallel: while the ios
\* latest-submission request is in flight the android one has been sent too, so
\* the android card does not wait for the ios check to settle.
C28_StatusChecksInParallel ==
    (probe = "ios" /\ probed["ios"] = "none") => StatusRequested("android")

\* the five transitions on a submission id
TransitionOps ==
    {"submitStoreConfig", "submitPushConfig", "submitMetadata", "triggerBuild", "cancelBuild"}

\* the cache held no submission of the id the call was about
CacheOfOtherSubmission(call) ==
    call.pre = Nothing \/ call.pre.id # call.args.submissionId

\* C31: a successful transition on submission id X leaves currentSubmission
\* unchanged when the cache holds no submission or one of another id, and
\* triggerBuild sends its request only when the METADATA_SUBMITTED submission it
\* checked is submission X.
C31_TransitionTouchesOnlyItsSubmission ==
    /\ (/\ lastCall.op \in TransitionOps
        /\ Succeeded(lastCall)
        /\ CacheOfOtherSubmission(lastCall)) => currentSubmission = lastCall.pre
    /\ (lastCall.op = "triggerBuild" /\ Sent(lastCall)) => ~CacheOfOtherSubmission(lastCall)

\* C33: after a getSubmissionState that returned submission null (fetch rejected)
\* currentSubmission is null: no submission of an earlier call stays cached.
C33_CacheAgreesWithLastState ==
    (/\ lastCall.op = "getSubmissionState"
     /\ lastCall.error = "none"
     /\ lastCall.returned.submission = Nothing) => currentSubmission = Nothing

\* C34: a transition whose remote request resolved returns success, whatever the
\* cached submission looks like (none, without data, with data).
C34_ResolvedTransitionSucceeds ==
    (lastCall.op \in TransitionOps /\ lastCall.remote = "resolved") =>
        /\ lastCall.error = "none"
        /\ lastCall.returned.success

\* C32: whenever the widget shows the ios-api-key screen the service's
\* currentSubmission is the latest ios submission or absent; no status probe that
\* settles late has replaced it with the android submission.
C32_CacheIsIOSOnAPIKeyScreen ==
    state.currentScreen = "ios-api-key" =>
        \/ currentSubmission = Nothing
        \/ currentSubmission = remoteLatest["ios"]

\* i is the id of the latest android submission
IsAndroidSubmissionId(i) ==
    remoteLatest["android"] # Nothing /\ remoteLatest["android"].id = i

\* C35: whenever the ios-api-key screen is active the selected platform is ios
\* and state.submissionId is null or not the id of the android submission, and
\* no create request was sent for another platform than ios.
C35_APIKeyScreenIsIOS ==
    /\ state.currentScreen = "ios-api-key" =>
          /\ state.selectedPlatform = "ios"
          /\ state.submissionId = 0 \/ ~IsAndroidSubmissionId(state.submissionId)
    /\ lastCreate.sent => lastCreate.platform = "ios"

\* the step items of a platform's progress list, in page order
StepItems(platform) ==
    IF platform = "ios"
    THEN <<"api-key", "bundle-cert", "push-config", "app-store-listing", "build">>
    ELSE <<"bundle-keystore", "push-config", "app-store-listing", "build">>

\* updatePlatformProgress: the class each step item is left with
UpdatePlatformProgress(platform, currentStep, completedSteps) ==
    [i \in DOMAIN StepItems(platform) |->
        LET stepName == StepItems(platform)[i]
        IN IF \E j \in DOMAIN completedSteps : completedSteps[j] = stepName
           THEN "completed"
           ELSE IF stepName = currentStep THEN "current"
           ELSE "pending"]

\* the platform's latest submission is started with a recognized data.status
\* before BUILD_TRIGGERED, and the dashboard has fetched it
ShowsStepInProgress(p) ==
    /\ probed[p] = "resolved"
    /\ remoteLatest[p] # Nothing
    /\ remoteLatest[p].status = "started"
    /\ remoteLatest[p].data # Nothing
    /\ remoteLatest[p].data.status \in ObjectValues(DATA_STATUS) \ {"BUILD_TRIGGERED"}

\* C40: for a started submission with a recognized data.status other than
\* BUILD_TRIGGERED exactly one step item of the platform is marked current, and
\* it is the first step that is not among the completed ones.
C40_OneCurrentStep ==
    \A p \in ObjectValues(PLATFORMS) :
        ShowsStepInProgress(p) =>
            LET classes == UpdatePlatformProgress(p, display[p].currentStep,
                                                  display[p].completedSteps)
                current == {i \in DOMAIN classes : classes[i] = "current"}
            IN /\ Cardinality(current) = 1
               /\ \A i \in current : \A j \in 1..(i - 1) : classes[j] = "completed"

-----------------------------------------------------------------------------
(* The creation flow of the integration test: initializeApp, createSubmission *)
(* and getSubmissionState called one at a time on a remote that starts       *)
(* without submissions and keeps the ones it creates                          *)

FlowInitializeApp ==
    \E app \in AppResponses :
        \E publishOk \in (IF app # Nothing /\ app.productionAppId = 0
                          THEN BOOLEAN ELSE {TRUE}) :
            Settle(initializeApp(currentSubmission, organizationId, app, publishOk))

FlowCreateSubmission ==
    \E platform \in ObjectValues(PLATFORMS), teamId \in TeamIdInputs :
        \E remoteOk \in (IF created < MaxCreates THEN BOOLEAN ELSE {FALSE}) :
            LET o == createSubmission(currentSubmission, organizationId, platform, teamId,
                                      remoteOk, 3 + created)
            IN /\ SettleService(o)
               /\ IF Succeeded(o.call)
                  THEN /\ remoteLatest' = [remoteLatest EXCEPT ![platform] =
                                              CreatedSubmission(3 + created, platform)]
                       /\ created' = created + 1
                  ELSE UNCHANGED <<remoteLatest, created>>
               /\ UNCHANGED <<state, apiKeySelect, message, ctp, cfk, probe, display, probed,
                              lastCreate, lastContinue, otherVars>>

FlowGetSubmissionState ==
    \E platform \in ObjectValues(PLATFORMS) :
        \E response \in FetchAnswers(platform) :
            Settle(getSubmissionState(currentSubmission, organizationId, platform, response))

NextCreateFlow ==
    \/ FlowInitializeApp
    \/ FlowCreateSubmission
    \/ FlowGetSubmissionState

SpecCreateFlow == Init /\ [][NextCreateFlow]_vars

-----------------------------------------------------------------------------
(* The service's utility methods, called one at a time: buildURL with the     *)
(* widget's getRegionURL as region URL builder, and validateStepAccess        *)

\* config.region: one of the documented options, "" when the environment has none
RegionInputs == {"", "eu", "us", "ca"}

\* Fliplet.Env.get('apiUrl'): "" when not set
ApiUrlInputs == {"", "https://staging.api.fliplet.com/"}

\* endpoints the service's methods pass to buildURL (app 1, organization 7)
EndpointInputs ==
    {"v1/apps/1", "v1/apps/1/publish", "v2/apps/1/submissions/latest?platform=ios",
     "v2/apps/1/submissions/initialize", "v2/organizations/7/credentials/api-keys",
     "v2/apps/1/submissions/1/store", "v2/apps/1/submissions/1/metadata",
     "v2/apps/1/submissions/1/build", "v2/apps/1/submissions/1/cancel",
     "v2/apps/1/submissions/1", "v2/apps/1/submissions"}

\* the Studio API column of the Regional Endpoints table
RegionalEndpoints ==
    [eu |-> "https://api.fliplet.com/",
     us |-> "https://us.api.fliplet.com/",
     ca |-> "https://ca.api.fliplet.com/"]

\* init's config.region: Fliplet.Env.get('region') || 'eu'
ConfigRegion(envRegion) == IF envRegion = "" THEN "eu" ELSE envRegion

\* getRegionURL of the widget; region "" is an argument not passed. A string
\* built from parts is the sequence of its parts.
GetRegionURL(region, serviceRegion, apiUrl) ==
    LET baseRegion == IF region # "" THEN region
                      ELSE IF serviceRegion # "" THEN serviceRegion ELSE "eu"
    IN IF apiUrl # "" THEN apiUrl ELSE "https://api.fliplet.com/"

\* buildURL: this.getRegion() is called without argument
BuildURL(serviceRegion, apiUrl, endpoint) ==
    <<GetRegionURL("", serviceRegion, apiUrl), endpoint>>

buildURL(cache, org, envRegion, apiUrl, endpoint) ==
    Outcome(cache, org,
        Call("buildURL", [region |-> ConfigRegion(envRegion), apiUrl |-> apiUrl,
                          endpoint |-> endpoint],
             cache, Nothing, "none", "none",
             [url |-> BuildURL(ConfigRegion(envRegion), apiUrl, endpoint)]))

\* stepOrder of validateStepAccess
StepOrder ==
    <<DATA_STATUS.INITIALIZED, DATA_STATUS.STORE_CONFIG_SUBMITTED,
      DATA_STATUS.PUSH_NOTIFICATION_CONFIGURED, DATA_STATUS.METADATA_SUBMITTED,
      DATA_STATUS.BUILD_TRIGGERED>>

\* Array.prototype.indexOf: zero-based, -1 when absent
IndexOf(array, x) ==
    IF \E i \in DOMAIN array : array[i] = x
    THEN (CHOOSE i \in DOMAIN array : array[i] = x) - 1
    ELSE -1

\* validateStepAccess: TRUE when it returns, FALSE when it throws
ValidateStepAccess(requiredDataStatus, actualDataStatus) ==
    LET requiredIndex == IndexOf(StepOrder, requiredDataStatus)
        actualIndex == IndexOf(StepOrder, actualDataStatus)
    IN ~(actualIndex < requiredIndex - 1)

validateStepAccess(cache, org, requiredDataStatus, actualDataStatus) ==
    Outcome(cache, org,
        Call("validateStepAccess",
             [requiredDataStatus |-> requiredDataStatus,
              actualDataStatus |-> actualDataStatus],
             cache, Nothing, "none",
             IF ValidateStepAccess(requiredDataStatus, actualDataStatus)
             THEN "none" ELSE "Sequencing",
             Nothing))

\* data.status values passed in: the recognized ones, a missing one and an
\* unrecognized one
DataStatusInputs == ObjectValues(DATA_STATUS) \cup {"undefined", "REVIEW_PENDING"}

CallBuildURL ==
    \E envRegion \in RegionInputs, apiUrl \in ApiUrlInputs, endpoint \in EndpointInputs :
        Settle(buildURL(currentSubmission, organizationId, envRegion, apiUrl, endpoint))

CallValidateStepAccess ==
    \E requiredDataStatus \in DataStatusInputs, actualDataStatus \in DataStatusInputs :
        Settle(validateStepAccess(currentSubmission, organizationId,
                                  requiredDataStatus, actualDataStatus))

NextUtility ==
    \/ CallBuildURL
    \/ CallValidateStepAccess

SpecUtility == Init /\ [][NextUtility]_vars

\* C25: with no apiUrl override the URL built for an endpoint starts with the
\* configured region's endpoint (eu https://api.fliplet.com/, us
\* https://us.api.fliplet.com/, ca https://ca.api.fliplet.com/), and services
\* configured with different regions build different URLs for the same endpoint.
C25_RegionSelectsBaseURL ==
    /\ (lastCall.op = "buildURL" /\ lastCall.args.apiUrl = "") =>
          lastCall.returned.url =
              <<RegionalEndpoints[lastCall.args.region], lastCall.args.endpoint>>
    /\ lastCall.op = "buildURL" =>
          \A other \in DOMAIN RegionalEndpoints \ {lastCall.args.region} :
              BuildURL(other, lastCall.args.apiUrl, lastCall.args.endpoint)
                  # lastCall.returned.url

\* C30: validateStepAccess returns exactly when the actual data.status is the
\* one immediately before the required one in the step order, and throws
\* otherwise (further behind, equal or ahead, or either value unrecognized).
C30_StepAccessExactlyPrevious ==
    lastCall.op = "validateStepAccess" =>
        LET requiredIndex == IndexOf(StepOrder, lastCall.args.requiredDataStatus)
            actualIndex == IndexOf(StepOrder, lastCall.args.actualDataStatus)
        IN (lastCall.error = "none") <=>
              /\ requiredIndex # -1
              /\ actualIndex # -1
              /\ actualIndex = requiredIndex - 1

-----------------------------------------------------------------------------
(* The documented build pollers: pollBuildStatus and monitorBuildWithTimeout. *)
(* Each poll awaits getSubmissionById and then returns, throws or schedules   *)
(* the next poll with setTimeout.                                             *)

\* the interval of monitorBuildWithTimeout's polls, in ms
PollInterval == 5000

\* timeouts passed to monitorBuildWithTimeout, in ms
TimeoutInputs == {5000, 10000, 12000}

\* what the awaited getSubmissionById gives: a rejection, the submission, or the
\* service's result object {success, submission}, which has no status or data
PollAnswers ==
    {[kind |-> "rejected"], [kind |-> "result"]}
        \cup {[kind |-> "submission", status |-> st, dataStatus |-> d] :
                 st \in RemoteStatuses, d \in ObjectValues(DATA_STATUS)}

\* the build is still running according to the fetched submission
StillBuilding(answer) ==
    /\ answer.kind = "submission"
    /\ answer.status = "started"
    /\ answer.dataStatus = "BUILD_TRIGGERED"

\* one poll of pollBuildStatus after its fetch settled: reading status.data.status
\* of a value without data throws
PollBuildStatusStep(p, answer) ==
    IF answer.kind # "submission" THEN "threw"
    ELSE IF answer.dataStatus = "BUILD_TRIGGERED" /\ answer.status = "started"
    THEN "timer"
    ELSE "returned"

\* a monitor that looks at data.status only
MonitorStepIgnoringStatus(p, answer) ==
    IF answer.kind # "submission" THEN "threw"
    ELSE IF answer.dataStatus # "BUILD_TRIGGERED" THEN "returned"
    ELSE IF p.pollCount * PollInterval >= p.timeout THEN "threw"
    ELSE "timer"

\* one poll of monitorBuildWithTimeout after its fetch settled; maxPolls is
\* timeout / 5000, so pollCount >= maxPolls is pollCount * 5000 >= timeout
MonitorStep(p, answer) ==
    IF answer.kind # "submission" THEN "threw"
    ELSE IF answer.status # "started" \/ answer.dataStatus # "BUILD_TRIGGERED"
    THEN "returned"
    ELSE IF p.pollCount * PollInterval >= p.timeout THEN "threw"
    ELSE "timer"

StartPoller(kind, timeout) ==
    [pc |-> "fetching", kind |-> kind, timeout |-> timeout, pollCount |-> 1,
     requests |-> 1, status |-> Nothing, finished |-> FALSE, failed |-> FALSE]

pollBuildStatus ==
    /\ poller.pc = "idle"
    /\ poller' = StartPoller("pollBuildStatus", 0)
    /\ UNCHANGED <<serviceVars, widgetVars, form, keyStep>>

monitorBuildWithTimeout ==
    /\ poller.pc = "idle"
    /\ \E timeout \in TimeoutInputs :
           poller' = StartPoller("monitorBuildWithTimeout", timeout)
    /\ UNCHANGED <<serviceVars, widgetVars, form, keyStep>>

\* the awaited getSubmissionById settles and the poll runs to its end; status is
\* the value fetched (Nothing after a rejection), finished and failed record
\* what it was
PollFetchSettles ==
    /\ poller.pc = "fetching"
    /\ \E answer \in PollAnswers :
           poller' = [poller EXCEPT
               !.pc = IF poller.kind = "pollBuildStatus"
                      THEN PollBuildStatusStep(poller, answer)
                      ELSE MonitorStep(poller, answer),
               !.status = IF answer.kind = "rejected" THEN Nothing ELSE answer,
               !.finished = answer.kind = "submission" /\ ~StillBuilding(answer),
               !.failed = answer.kind = "rejected"]
    /\ UNCHANGED <<serviceVars, widgetVars, form, keyStep>>

\* the timer set by setTimeout(poll, ...) fires: the next poll sends its request
PollTimerFires ==
    /\ poller.pc = "timer"
    /\ poller.requests < MaxPolls
    /\ poller' = [poller EXCEPT !.pc = "fetching", !.pollCount = @ + 1,
                                !.requests = @ + 1]
    /\ UNCHANGED <<serviceVars, widgetVars, form, keyStep>>

NextPoller ==
    \/ pollBuildStatus
    \/ monitorBuildWithTimeout
    \/ PollFetchSettles
    \/ PollTimerFires

SpecPoller == Init /\ [][NextPoller]_vars

\* a poller with neither a request in flight nor a timer scheduled
PollerStopped == poller.pc \in {"returned", "threw"}

\* C27 as stated: once a fetched submission is no longer started / BUILD_TRIGGERED
\* the poller has stopped (no request in flight, no timer scheduled);
\* monitorBuildWithTimeout stops after a fetch error and has issued at most
\* maxPolls = timeout / 5000 requests.
C27_PollingStops ==
    poller.pc # "idle" =>
        /\ poller.finished => PollerStopped
        /\ poller.kind = "monitorBuildWithTimeout" =>
              /\ poller.failed => PollerStopped
              /\ poller.requests * PollInterval <= poller.timeout

\* C27 amended: as above, with the number of requests of monitorBuildWithTimeout
\* bounded by maxPolls rounded up (each request but the first follows a poll
\* whose count was below maxPolls).
C27_PollingStopsRoundedUp ==
    poller.pc # "idle" =>
        /\ poller.finished => PollerStopped
        /\ poller.kind = "monitorBuildWithTimeout" =>
              /\ poller.failed => PollerStopped
              /\ \/ poller.requests = 1
                 \/ (poller.requests - 1) * PollInterval < poller.timeout

\* C27 witness: a monitor that polled more than once fetched a finished build
C27_Witness ==
    /\ poller.pc = "returned"
    /\ poller.kind = "monitorBuildWithTimeout"
    /\ poller.requests > 1
    /\ poller.finished

-----------------------------------------------------------------------------
(* The configuration interface (interface.js): two platform checkboxes, the  *)
(* region select, the form's submit handler and Studio's save request        *)

\* a stored setting: not there yet, or one of its values
StoredFlags == {"undefined", "true", "false"}

\* what the page shows for a stored flag: checked when there is none, otherwise
\* whatever the markup rendered
RenderedFlag(stored) == IF stored = "undefined" THEN {TRUE} ELSE BOOLEAN

\* the region select: 'eu' when none is stored
RenderedRegion(stored) == IF stored = "" THEN {"eu"} ELSE {stored}

\* the interface opens on the stored configuration
OpenInterface ==
    /\ ~form.open
    /\ \E storedIOS \in StoredFlags, storedAndroid \in StoredFlags, storedRegion \in RegionInputs :
         \E showIOS \in RenderedFlag(storedIOS), showAndroid \in RenderedFlag(storedAndroid),
            region \in RenderedRegion(storedRegion) :
             form' = [open |-> TRUE, showIOS |-> showIOS, showAndroid |-> showAndroid,
                      region |-> region, warning |-> FALSE, lastSubmit |-> "none",
                      lastSave |-> Nothing, saves |-> 0, pending |-> 0, completes |-> 0]
    /\ UNCHANGED <<serviceVars, widgetVars, poller, keyStep>>

\* the change handler of the two checkboxes
PlatformChanged(f) == [f EXCEPT !.warning = ~f.showIOS /\ ~f.showAndroid]

ChangeShowIOS ==
    /\ form.open
    /\ form' = PlatformChanged([form EXCEPT !.showIOS = ~@])
    /\ UNCHANGED <<serviceVars, widgetVars, poller, keyStep>>

ChangeShowAndroid ==
    /\ form.open
    /\ form' = PlatformChanged([form EXCEPT !.showAndroid = ~@])
    /\ UNCHANGED <<serviceVars, widgetVars, poller, keyStep>>

ChangeRegion ==
    /\ form.open
    /\ \E region \in DOMAIN RegionalEndpoints :
           /\ region # form.region
           /\ form' = [form EXCEPT !.region = region]
    /\ UNCHANGED <<serviceVars, widgetVars, poller, keyStep>>

\* a submit handler that saves whatever is checked
SubmitHandlerUnvalidated(f) ==
    [f EXCEPT !.lastSubmit = "save",
              !.lastSave = [showIOS |-> f.showIOS, showAndroid |-> f.showAndroid,
                            region |-> f.region],
              !.saves = @ + 1,
              !.pending = @ + 1]

\* the form's submit handler: alert and return, or Fliplet.Widget.save
SubmitHandler(f) ==
    IF ~f.showIOS /\ ~f.showAndroid
    THEN [f EXCEPT !.lastSubmit = "alert"]
    ELSE [f EXCEPT !.lastSubmit = "save",
                   !.lastSave = [showIOS |-> f.showIOS, showAndroid |-> f.showAndroid,
                                 region |-> f.region],
                   !.saves = @ + 1,
                   !.pending = @ + 1]

\* the user submits the form
FormSubmit ==
    /\ form.open
    /\ form.saves < MaxSaves
    /\ form' = SubmitHandler(form)
    /\ UNCHANGED <<serviceVars, widgetVars, poller, keyStep>>

\* Studio's save button: onSaveRequest submits the form
OnSaveRequest ==
    /\ form.open
    /\ form.saves < MaxSaves
    /\ form' = [SubmitHandler(form) EXCEPT !.lastSubmit = @ \o " (Studio)"]
    /\ UNCHANGED <<serviceVars, widgetVars, poller, keyStep>>

\* Fliplet.Widget.save resolves: Fliplet.Widget.complete
SaveResolves ==
    /\ form.open
    /\ form.pending > 0
    /\ form' = [form EXCEPT !.pending = @ - 1, !.completes = @ + 1]
    /\ UNCHANGED <<serviceVars, widgetVars, poller, keyStep>>

\* Fliplet.Widget.save rejects: nothing follows
SaveRejects ==
    /\ form.open
    /\ form.pending > 0
    /\ form' = [form EXCEPT !.pending = @ - 1]
    /\ UNCHANGED <<serviceVars, widgetVars, poller, keyStep>>

NextInterface ==
    \/ OpenInterface
    \/ ChangeShowIOS
    \/ ChangeShowAndroid
    \/ ChangeRegion
    \/ FormSubmit
    \/ OnSaveRequest
    \/ SaveResolves
    \/ SaveRejects

SpecInterface == Init /\ [][NextInterface]_vars

\* C29: whatever the checkboxes went through, Fliplet.Widget.save was only
\* called with showIOS or showAndroid true, and Fliplet.Widget.complete was
\* called no more often than a save has settled.
C29_NeverSavesWithoutPlatform ==
    form.open =>
        /\ form.lastSave # Nothing => (form.lastSave.showIOS \/ form.lastSave.showAndroid)
        /\ form.completes <= form.saves - form.pending

\* C29 witness: after a completed save both platforms were unchecked and Studio's
\* save request was answered with the alert
C29_Witness ==
    /\ form.open
    /\ form.completes > 0
    /\ ~form.showIOS
    /\ ~form.showAndroid
    /\ form.warning
    /\ form.lastSubmit = "alert (Studio)"

-----------------------------------------------------------------------------
(* IOSAPIKeyStep: the API-key dropdown, the new-key form, the three buttons, *)
(* the messages with their auto-hide timers, and the navigation event.       *)
(* Every handler runs to its first await; what it awaits settles later.      *)

\* the key the organization has and the key createNewAPIKey creates
ExistingKey == "KEY1"
NewKey == "KEY2"

\* showError: clearMessages, then the alert; the timers pending belong to
\* messages shown earlier
ShowError(s) ==
    [s EXCEPT !.alert = "error", !.stale = s.stale + s.fresh, !.fresh = 0]

\* showSuccess: clearMessages, the alert, and setTimeout(clearMessages, 5000)
ShowSuccess(s) ==
    [s EXCEPT !.alert = "success", !.stale = s.stale + s.fresh, !.fresh = 1]

\* updateContinueButton
UpdateContinueButton(s) == [s EXCEPT !.contDisabled = s.selectedAPIKeyId = ""]

\* IOSAPIKeyStep(...) and init(): handlers set up, loadAPIKeys has sent its request
MountedStep(contDisabled, remoteKeys) ==
    [mounted |-> TRUE, selectedAPIKeyId |-> "", submissionId |-> 0,
     options |-> {}, value |-> "", contDisabled |-> contDisabled, formOpen |-> FALSE,
     validating |-> "", saving |-> "idle", creating |-> <<>>,
     loads |-> 1, autoSelect |-> {},
     alert |-> "none", fresh |-> 0, stale |-> 0, lastClear |-> <<"none", "none">>,
     lastEvent |-> Nothing, remoteKeys |-> remoteKeys, created |-> 0]

\* the host initializes the app before it constructs the step
HostInitializeApp ==
    /\ ~keyStep.mounted
    /\ organizationId = 0
    /\ \E app \in AppResponses :
        \E publishOk \in (IF app # Nothing /\ app.productionAppId = 0
                          THEN BOOLEAN ELSE {TRUE}) :
            SettleFields(initializeApp(currentSubmission, organizationId, app, publishOk))
    /\ UNCHANGED <<widgetVars, otherVars>>

MountKeyStep ==
    /\ ~keyStep.mounted
    /\ \E contDisabled \in BOOLEAN, remoteKeys \in {{}, {ExistingKey}} :
           keyStep' = MountedStep(contDisabled, remoteKeys)
    /\ UNCHANGED <<serviceVars, widgetVars, poller, form>>

\* a timer of showSuccess fires: clearMessages. lastClear records whose timer it
\* was and what it removed
ClearTimerFires ==
    /\ keyStep.mounted
    /\ \E timer \in {"fresh", "stale"} :
           /\ keyStep[timer] > 0
           /\ keyStep' = [keyStep EXCEPT ![timer] = @ - 1, !.alert = "none",
                                         !.lastClear = <<timer, keyStep.alert>>]
    /\ UNCHANGED <<serviceVars, widgetVars, poller, form>>

\* loadAPIKeys: getAPIKeys settles; the rebuilt dropdown shows its first option
LoadAPIKeysSettles ==
    /\ keyStep.mounted
    /\ keyStep.loads > 0
    /\ \E ok \in BOOLEAN :
           LET o == getAPIKeys(currentSubmission, organizationId,
                               [ok |-> ok, keys |-> keyStep.remoteKeys])
               s == [keyStep EXCEPT !.loads = @ - 1]
           IN /\ SettleFields(o)
              /\ keyStep' = IF o.call.error = "none"
                            THEN [s EXCEPT !.options = o.call.returned.apiKeys, !.value = ""]
                            ELSE ShowError(s)
    /\ UNCHANGED <<widgetVars, poller, form>>

\* the change handler of #api-key-select
SelectKey ==
    /\ keyStep.mounted
    /\ \E key \in keyStep.options \cup {""} :
           /\ key # keyStep.value
           /\ keyStep' = UpdateContinueButton(
                             [keyStep EXCEPT !.value = key, !.selectedAPIKeyId = key])
    /\ UNCHANGED <<serviceVars, widgetVars, poller, form>>

\* click on #create-new-api-key: toggleNewAPIKeyForm(true)
ClickCreateNew ==
    /\ keyStep.mounted
    /\ ~keyStep.formOpen
    /\ keyStep' = [keyStep EXCEPT !.formOpen = TRUE]
    /\ UNCHANGED <<serviceVars, widgetVars, poller, form>>

\* click on #save-new-api-key: createNewAPIKey up to reader.readAsText
ClickSave ==
    /\ keyStep.mounted
    /\ keyStep.formOpen
    /\ keyStep.saving = "idle"
    /\ NewKey \notin keyStep.remoteKeys
    /\ \E complete \in BOOLEAN :
           keyStep' = IF complete THEN [keyStep EXCEPT !.saving = "reading"]
                      ELSE ShowError(keyStep)
    /\ UNCHANGED <<serviceVars, widgetVars, poller, form>>

\* the FileReader settles: onload calls createAPIKey, onerror gives up
ReaderSettles ==
    /\ keyStep.mounted
    /\ keyStep.saving = "reading"
    /\ \E loaded \in BOOLEAN :
           keyStep' = IF loaded THEN [keyStep EXCEPT !.saving = "creating"]
                      ELSE [ShowError(keyStep) EXCEPT !.saving = "idle"]
    /\ UNCHANGED <<serviceVars, widgetVars, poller, form>>

\* createAPIKey settles: message, form closed, list reloaded and the auto-select
\* timer started, or the error; then hideLoading
CreateAPIKeySettles ==
    /\ keyStep.mounted
    /\ keyStep.saving = "creating"
    /\ keyStep.fresh + keyStep.stale < MaxTimers
    /\ \E remoteOk \in BOOLEAN :
           LET keyData == [name |-> "k", keyId |-> NewKey, issuerId |-> "I1",
                           privateKey |-> "pem"]
               o == createAPIKey(currentSubmission, organizationId, keyData, remoteOk)
           IN /\ SettleFields(o)
              /\ keyStep' =
                    IF o.call.error = "none"
                    THEN [ShowSuccess(keyStep) EXCEPT
                             !.formOpen = FALSE, !.loads = @ + 1,
                             !.autoSelect = @ \cup {NewKey},
                             !.remoteKeys = @ \cup {NewKey}, !.saving = "idle"]
                    ELSE [ShowError(keyStep) EXCEPT !.saving = "idle"]
    /\ UNCHANGED <<widgetVars, poller, form>>

\* the 500 ms timer after createAPIKey: val(id) selects the option when the list
\* has it and nothing otherwise
AutoSelectFires ==
    /\ keyStep.mounted
    /\ \E key \in keyStep.autoSelect :
           keyStep' = UpdateContinueButton(
                         [keyStep EXCEPT !.autoSelect = @ \ {key},
                                         !.value = IF key \in keyStep.options THEN key ELSE "",
                                         !.selectedAPIKeyId = key])
    /\ UNCHANGED <<serviceVars, widgetVars, poller, form>>

\* click on #validate-api-key
ClickValidate ==
    /\ keyStep.mounted
    /\ keyStep.validating = ""
    /\ keyStep' = IF keyStep.selectedAPIKeyId = "" THEN ShowError(keyStep)
                  ELSE [keyStep EXCEPT !.validating = keyStep.selectedAPIKeyId]
    /\ UNCHANGED <<serviceVars, widgetVars, poller, form>>

\* validateAPIKey settles
ValidateSettles ==
    /\ keyStep.mounted
    /\ keyStep.validating # ""
    /\ keyStep.fresh + keyStep.stale < MaxTimers
    /\ \E remoteOk \in BOOLEAN, valid \in BOOLEAN :
           LET o == validateAPIKey(currentSubmission, organizationId,
                                   keyStep.validating, remoteOk)
               s == [keyStep EXCEPT !.validating = ""]
           IN /\ SettleFields(o)
              /\ keyStep' = IF o.call.error = "none" /\ valid THEN ShowSuccess(s)
                            ELSE ShowError(s)
    /\ UNCHANGED <<widgetVars, poller, form>>

\* the ios-api-key:navigate event to the next step
NavigateEvent(s) ==
    [nextStep |-> "ios-bundle-cert", submissionId |-> s.submissionId,
     apiKeyId |-> s.selectedAPIKeyId]

\* continueFromAPIKey up to its await: with a submissionId the chain runs through
\* (event, hideLoading), without one createSubmission is in flight
ContinueFromAPIKey(s) ==
    IF s.selectedAPIKeyId = "" THEN ShowError(s)
    ELSE IF s.submissionId # 0
    THEN [s EXCEPT !.lastEvent = NavigateEvent(s), !.contDisabled = FALSE]
    ELSE [s EXCEPT !.contDisabled = TRUE,
                   !.creating = Append(@, s.selectedAPIKeyId)]

\* click on #continue-api-key
ClickContinue ==
    /\ keyStep.mounted
    /\ ~keyStep.contDisabled
    /\ Len(keyStep.creating) + keyStep.created < MaxCreates
    /\ keyStep' = ContinueFromAPIKey(keyStep)
    /\ UNCHANGED <<serviceVars, widgetVars, poller, form>>

\* the sequence without its i-th element
Without(seq, i) == [j \in 1..(Len(seq) - 1) |-> IF j < i THEN seq[j] ELSE seq[j + 1]]

\* createSubmission of a continueFromAPIKey settles: submissionId and the event,
\* or the error; then hideLoading
ContinueSettles ==
    /\ keyStep.mounted
    /\ \E i \in DOMAIN keyStep.creating, remoteOk \in BOOLEAN :
           LET o == createSubmission(currentSubmission, organizationId, "ios",
                                     keyStep.creating[i], remoteOk, 3 + keyStep.created)
               s == [keyStep EXCEPT !.creating = Without(@, i), !.contDisabled = FALSE]
           IN /\ SettleFields(o)
              /\ keyStep' =
                    IF o.call.error = "none"
                    THEN LET t == [s EXCEPT !.submissionId = o.call.returned.submission.id,
                                            !.created = @ + 1]
                         IN [t EXCEPT !.lastEvent = NavigateEvent(t)]
                    ELSE ShowError(s)
    /\ UNCHANGED <<widgetVars, poller, form>>

NextKeyStep ==
    \/ HostInitializeApp
    \/ MountKeyStep
    \/ ClearTimerFires
    \/ LoadAPIKeysSettles
    \/ SelectKey
    \/ ClickCreateNew
    \/ ClickSave
    \/ ReaderSettles
    \/ CreateAPIKeySettles
    \/ AutoSelectFires
    \/ ClickValidate
    \/ ValidateSettles
    \/ ClickContinue
    \/ ContinueSettles

SpecKeyStep == Init /\ [][NextKeyStep]_vars

\* C36: an auto-hide timer removes only the success message that started it: a
\* timer that fires after a later showError / showSuccess finds nothing of its own
\* and removes nothing.
C36_TimerClearsOnlyItsMessage ==
    (keyStep.mounted /\ keyStep.lastClear[1] = "stale") => keyStep.lastClear[2] = "none"

\* C37: selectedAPIKeyId is the value selected in the API-key dropdown, whatever
\* the user selected, the list reloads and the auto-select timer did.
C37_SelectedKeyIsDropdownValue ==
    keyStep.mounted => keyStep.selectedAPIKeyId = keyStep.value

\* C38 (its safety half): while continueFromAPIKey is in flight its button stays
\* disabled and no second continueFromAPIKey is started.
C38_NoSecondInstanceWhileLoading ==
    keyStep.mounted =>
        /\ Len(keyStep.creating) <= 1
        /\ keyStep.creating # <<>> => keyStep.contDisabled

\* C39: the navigation event to ios-bundle-cert carries a non-null submissionId
\* and a non-empty apiKeyId, and there is none before a submission was created.
C39_NavigationCarriesIds ==
    (keyStep.mounted /\ keyStep.lastEvent # Nothing) =>
        /\ keyStep.submissionId # 0
        /\ keyStep.lastEvent.submissionId # 0
        /\ keyStep.lastEvent.apiKeyId # ""

====
